---- MODULE Spec2Model ----
(***************************************************************************)
(* Perplex: the analysis worker (src/src/llamacpp.rs) and the channel      *)
(* protocol between it and its caller (src/src/utils.rs, src/src/main.rs). *)
(*                                                                         *)
(* The inference engine (llama_cpp_2) is an external collaborator.  It is  *)
(* modelled by a small deterministic stub: a character-level tokenizer, a  *)
(* six-entry vocabulary and integer logits.  Its fallible calls (model     *)
(* load, context creation, batch add, decode) fail nondeterministically.   *)
(* Probabilities are fixed-point numbers, in units of 1/10000.           *)
(***************************************************************************)
EXTENDS Integers, Sequences, FiniteSets, TLC

\* ------------------------------------------------------------------ bounds
\* Number of commands the caller sends over the life of one worker.
MaxCmds == 2
\* Length, in characters, of the long input text (more than one chunk).
LongLen == 513

\* ------------------------------------------------------- program constants
n_batch == 512
ctx_margin == 512
ctx_min == 4096
top_k == 5

\* ------------------------------------------------------------ engine stub
\* Token id of the beginning-of-sequence marker.
BOS == 1
\* The model's vocabulary: ids 1..n_vocab.
n_vocab == 6
\* Fixed-point scale of probabilities and of exp().
SCALE == 10000

\* The character NUL cannot be passed to the tokenizer (the text is turned
\* into a C string first), so a text that holds it fails to tokenize.
NUL == "\\0"

TokenOfChar(c) ==
    CASE c = "a" -> 2
      [] c = "b" -> 3
      [] c = "\n" -> 4
      [] OTHER -> 5

\* model.str_to_token(text, add_bos): Err, or Ok(tokens).  Whether a leading
\* marker is really added under AddBos::Always is a property of the loaded
\* model (adds_bos).
str_to_token(text, add_bos, adds_bos) ==
    IF \E i \in 1..Len(text) : text[i] = NUL
    THEN [ok |-> FALSE, tokens |-> <<>>]
    ELSE [ok |-> TRUE,
          tokens |-> (IF add_bos /\ adds_bos THEN <<BOS>> ELSE <<>>)
                     \o [i \in 1..Len(text) |-> TokenOfChar(text[i])]]

\* model.token_to_str(token, Special::Tokenize) with the caller's fallback
\* "[id]" for a token the model cannot render.
token_to_str(id) ==
    CASE id = 1 -> "<s>"
      [] id = 2 -> "a"
      [] id = 3 -> "b"
      [] id = 4 -> "\n"
      [] id = 5 -> "\t"
      [] OTHER -> "[" \o ToString(id) \o "]"

\* The logit the model gives candidate id after it decoded token tok at
\* absolute position pos (0-based).  Deterministic; has ties.
Logit(tok, pos, id) == (tok * id + pos + id * id) % 4

\* The candidates the engine surfaces after it decoded token tok at absolute
\* position pos.  The engine owes the caller neither a candidate for every
\* vocabulary entry nor any candidate at all: this one gives none at some
\* positions and leaves the token "a" out at others.  Deterministic.
Surfaced(tok, pos, id) ==
    /\ (tok + pos) % 7 # 6
    /\ (tok + pos) % 5 = 3 => id # 2

\* ctx.candidates_ith(i): the (id, logit) pairs the engine surfaces, in id
\* order, for the i-th token of the batch just decoded.
candidates_ith(batch, i) ==
    SelectSeq([id \in 1..n_vocab |->
                  <<id, Logit(batch[i].token, batch[i].pos, id)>>],
              LAMBDA c : Surfaced(batch[i].token, batch[i].pos, c[1]))

\* exp(-d) in units of 1/SCALE, d = max_logit - logit, an integer in 0..3.
exp_neg(d) ==
    CASE d = 0 -> 10000
      [] d = 1 -> 3679
      [] d = 2 -> 1353
      [] OTHER -> 498

\* ------------------------------------------------ calculate_token_metrics
RECURSIVE MaxLogit(_)
MaxLogit(logits) ==
    IF Len(logits) = 1 THEN logits[1][2]
    ELSE LET m == MaxLogit(Tail(logits))
         IN IF logits[1][2] > m THEN logits[1][2] ELSE m

RECURSIVE SumExp(_, _)
SumExp(logits, max_logit) ==
    IF logits = <<>> THEN 0
    ELSE exp_neg(max_logit - logits[1][2]) + SumExp(Tail(logits), max_logit)

\* Insert x into a list sorted by descending logit, after its equals.
RECURSIVE InsertDesc(_, _)
InsertDesc(x, s) ==
    IF s = <<>> THEN <<x>>
    ELSE IF s[1][2] >= x[2] THEN <<s[1]>> \o InsertDesc(x, Tail(s))
    ELSE <<x>> \o s

\* logits.sort_unstable_by(descending logit).  For the short lists of this
\* model the library sorts by insertion, which keeps equal logits in their
\* original order.
RECURSIVE SortDesc(_)
SortDesc(logits) ==
    IF logits = <<>> THEN <<>>
    ELSE InsertDesc(logits[Len(logits)],
                    SortDesc(SubSeq(logits, 1, Len(logits) - 1)))

\* The zero-based index itself, so that the first place reads as none.
Position_ZeroBased(sorted, target_id) ==
    IF \E i \in 1..Len(sorted) : sorted[i][1] = target_id
    THEN (CHOOSE i \in 1..Len(sorted) :
            /\ sorted[i][1] = target_id
            /\ \A j \in 1..(i - 1) : sorted[j][1] # target_id) - 1
    ELSE 0

\* logits.iter().position(|(id, _)| *id == target_id): 1-based, 0 if none.
Position(sorted, target_id) ==
    IF \E i \in 1..Len(sorted) : sorted[i][1] = target_id
    THEN CHOOSE i \in 1..Len(sorted) :
            /\ sorted[i][1] = target_id
            /\ \A j \in 1..(i - 1) : sorted[j][1] # target_id
    ELSE 0

\* The exponential alone, not divided by the sum.
Prob_Unnormalised(logit, max_logit, sum_exp) ==
    exp_neg(max_logit - logit)

\* (logit - max_logit).exp() / sum_exp
Prob(logit, max_logit, sum_exp) ==
    (exp_neg(max_logit - logit) * SCALE) \div sum_exp

NoTarget == 0

\* The metrics with the rank looked up in the candidates as the engine lists
\* them, and the top predictions taken from the sorted list.
calculate_token_metrics_RankUnsorted(logits, target_token) ==
    IF logits = <<>> THEN <<1, 0, <<>> >>
    ELSE
    LET max_logit == MaxLogit(logits)
        sum_exp == SumExp(logits, max_logit)
        sorted == SortDesc(logits)
        idx == IF target_token = NoTarget THEN 0
               ELSE Position(logits, target_token)
        rank == IF idx = 0 THEN 1 ELSE idx
        probability == IF idx = 0 THEN 0
                       ELSE Prob(logits[idx][2], max_logit, sum_exp)
        n_top == IF Len(sorted) < top_k THEN Len(sorted) ELSE top_k
        top_preds == [k \in 1..n_top |->
                        <<sorted[k][1], Prob(sorted[k][2], max_logit, sum_exp)>>]
    IN <<rank, probability, top_preds>>

\* The metrics taken from the candidates as the engine lists them, without
\* the sort.
calculate_token_metrics_Unsorted(logits, target_token) ==
    IF logits = <<>> THEN <<1, 0, <<>> >>
    ELSE
    LET max_logit == MaxLogit(logits)
        sum_exp == SumExp(logits, max_logit)
        idx == IF target_token = NoTarget THEN 0
               ELSE Position(logits, target_token)
        rank == IF idx = 0 THEN 1 ELSE idx
        probability == IF idx = 0 THEN 0
                       ELSE Prob(logits[idx][2], max_logit, sum_exp)
        n_top == IF Len(logits) < top_k THEN Len(logits) ELSE top_k
        top_preds == [k \in 1..n_top |->
                        <<logits[k][1], Prob(logits[k][2], max_logit, sum_exp)>>]
    IN <<rank, probability, top_preds>>

\* The metrics with top predictions only for a target that was found.
calculate_token_metrics_TopIfFound(logits, target_token) ==
    IF logits = <<>> THEN <<1, 0, <<>> >>
    ELSE
    LET max_logit == MaxLogit(logits)
        sum_exp == SumExp(logits, max_logit)
        sorted == SortDesc(logits)
        idx == IF target_token = NoTarget THEN 0
               ELSE Position(sorted, target_token)
        rank == IF idx = 0 THEN 1 ELSE idx
        probability == IF idx = 0 THEN 0
                       ELSE Prob(sorted[idx][2], max_logit, sum_exp)
        n_top == IF Len(sorted) < top_k THEN Len(sorted) ELSE top_k
        top_preds == [k \in 1..n_top |->
                        <<sorted[k][1], Prob(sorted[k][2], max_logit, sum_exp)>>]
    IN <<rank, probability, IF idx = 0 THEN <<>> ELSE top_preds>>

\* calculate_token_metrics(logits, target_token) = (rank, probability,
\* top_preds); target NoTarget stands for None.
calculate_token_metrics(logits, target_token) ==
    IF logits = <<>> THEN <<1, 0, <<>> >>
    ELSE
    LET max_logit == MaxLogit(logits)
        sum_exp == SumExp(logits, max_logit)
        sorted == SortDesc(logits)
        idx == IF target_token = NoTarget THEN 0
               ELSE Position(sorted, target_token)
        rank == IF idx = 0 THEN 1 ELSE idx
        probability == IF idx = 0 THEN 0
                       ELSE Prob(sorted[idx][2], max_logit, sum_exp)
        n_top == IF Len(sorted) < top_k THEN Len(sorted) ELSE top_k
        top_preds == [k \in 1..n_top |->
                        <<sorted[k][1], Prob(sorted[k][2], max_logit, sum_exp)>>]
    IN <<rank, probability, top_preds>>

\* ---------------------------------------------------------- result model
\* AnalyzedToken::new: display_text rewrites newline and tab.
display_text(text) ==
    CASE text = "\n" -> "NL\n"
      [] text = "\t" -> "TAB"
      [] OTHER -> text

AnalyzedToken(text, rank, top_predictions, probability) ==
    [text |-> text, display_text |-> display_text(text), rank |-> rank,
     top_predictions |-> top_predictions, probability |-> probability]

\* ---------------------------------------------------------------- inputs
LongText == [i \in 1..LongLen |-> IF i % 3 = 0 THEN "b" ELSE "a"]

\* The texts a caller may send.
Texts == { <<>>, <<NUL>>, <<"a", "\n", "b">>, LongText }

Analyze(text) == [type |-> "Analyze", text |-> text]
Tokenize(text) == [type |-> "Tokenize", text |-> text]
Shutdown == [type |-> "Shutdown", text |-> <<>>]

Commands == {Analyze(t) : t \in Texts} \cup {Tokenize(t) : t \in Texts}
            \cup {Shutdown}

\* WorkerMessage
ModelLoaded == [type |-> "ModelLoaded"]
Started == [type |-> "Started"]
Progress(current, total) ==
    [type |-> "Progress", current |-> current, total |-> total]
Completed(result) == [type |-> "Completed", result |-> result]
TokenCount(n) == [type |-> "TokenCount", count |-> n]
Error(message) == [type |-> "Error", message |-> message]

\* ----------------------------------------------------------------- state
VARIABLES
    pc,               \* the worker's position in run_analysis_worker
    adds_bos,         \* the loaded model adds a leading marker
    cmd_chan,         \* command channel: commands sent and not yet received
    tx_alive,         \* the caller still holds the command Sender
    rx_alive,         \* the worker still holds the command Receiver
    msg_chan,         \* message channel: every message sent, oldest first
    text,             \* analyze: the text of the command
    tokens,           \* analyze: the token sequence
    processed_count,  \* analyze: tokens of the chunks already decoded
    compact_results,  \* analyze: (rank, prob, top_preds) per position
    sent_cmds,        \* history: commands the channel accepted, in order
    last_send,        \* history: outcome of the caller's latest send
    trace,            \* history: what the worker did, in order
    \* PerplexApp (src/src/main.rs); worker_tx.is_some() is tx_alive
    app_pc,           \* the caller's position: "idle" between two frames;
                      \* in update(), "frame" after its poll, "input" past
                      \* the model panel, "controls" past the text input,
                      \* "settings" past the controls; inside a join;
                      \* "exited"
    model_path,       \* settings.model_path is Some
    input_text,       \* input_text
    analysis_result,  \* analysis_result: <<>> for None, <<result>> for Some
    error_message,    \* error_message: <<>> for None, <<message>> for Some
    is_loading_model, \* is_loading_model
    is_analyzing,     \* is_analyzing
    progress,         \* progress: <<>> for None, <<fraction>> for Some
    token_count,      \* token_count: <<>> for None, <<count>> for Some
    worker_rx,        \* worker_rx is Some
    worker_handle,    \* worker_handle is Some
    polled,           \* messages of msg_chan the caller has taken
    orphans,          \* worker threads running with no handle left to join
    n_loads,          \* history: load_model calls so far
    \* one evaluation of a pure function of the repository
    fn_in,            \* its arguments
    fn_out            \* its result, <<>> before the call

worker_vars == <<pc, adds_bos, cmd_chan, tx_alive, rx_alive, msg_chan, text,
                 tokens, processed_count, compact_results, sent_cmds,
                 last_send, trace>>

app_vars == <<app_pc, model_path, input_text, analysis_result, error_message,
              is_loading_model, is_analyzing, progress, token_count,
              worker_rx, worker_handle, polled, orphans, n_loads>>

fn_vars == <<fn_in, fn_out>>

vars == <<worker_vars, app_vars, fn_vars>>

analyze_locals == <<text, tokens, processed_count, compact_results>>
caller_hist == <<sent_cmds, last_send>>

\* Events of the worker's history.
EvSend(m) == [ev |-> "send", msg |-> m]
EvRecv(c) == [ev |-> "recv", cmd |-> c]
EvDisconnected == [ev |-> "recv_err"]
EvCall(op, arg, res) == [ev |-> "call", op |-> op, arg |-> arg, res |-> res]

\* PerplexApp::default()
AppDefault ==
    /\ app_pc = "idle"
    /\ model_path = FALSE
    /\ input_text = <<>>
    /\ analysis_result = <<>>
    /\ error_message = <<>>
    /\ is_loading_model = FALSE
    /\ is_analyzing = FALSE
    /\ progress = <<>>
    /\ token_count = <<>>
    /\ worker_rx = FALSE
    /\ worker_handle = FALSE
    /\ polled = 0
    /\ orphans = 0
    /\ n_loads = 0

\* No pure function is under evaluation.
FnIdle ==
    /\ fn_in = <<>>
    /\ fn_out = <<>>

\* A worker just spawned with both channels new, and a caller that sends
\* what it likes.
Init ==
    /\ pc = "load"
    /\ adds_bos = FALSE
    /\ cmd_chan = <<>>
    /\ tx_alive = TRUE
    /\ rx_alive = TRUE
    /\ msg_chan = <<>>
    /\ text = <<>>
    /\ tokens = <<>>
    /\ processed_count = 0
    /\ compact_results = <<>>
    /\ sent_cmds = <<>>
    /\ last_send = "none"
    /\ trace = <<>>
    /\ AppDefault
    /\ FnIdle

\* The messages among the events evs, in order.
Msgs(evs) ==
    LET sends == SelectSeq(evs, LAMBDA e : e.ev = "send")
    IN [i \in 1..Len(sends) |-> sends[i].msg]

\* One step of the worker: its engine calls and its msg_tx.send(m) calls,
\* in program order.
Emit(evs) ==
    /\ trace' = trace \o evs
    /\ msg_chan' = msg_chan \o Msgs(evs)

\* The worker function returns: its Receiver is dropped, and with it
\* whatever the channel still holds.
WorkerReturn ==
    /\ pc' = "done"
    /\ rx_alive' = FALSE
    /\ cmd_chan' = <<>>

\* analyze returns: its locals are dropped and the worker is back at recv().
AnalyzeReturn ==
    /\ pc' = "recv"
    /\ text' = <<>>
    /\ tokens' = <<>>
    /\ processed_count' = 0
    /\ compact_results' = <<>>

\* ------------------------------------------------------------ the worker
\* WorkerLoad without the return of the Err arm: the worker enters its
\* loop after a failed load.
WorkerLoad_NoReturn ==
    /\ pc = "load"
    /\ \E ok \in BOOLEAN, bos \in BOOLEAN :
        IF ok
        THEN /\ adds_bos' = bos
             /\ Emit(<<EvCall("load", "model", "ok"), EvSend(ModelLoaded)>>)
        ELSE /\ bos = FALSE
             /\ adds_bos' = adds_bos
             /\ Emit(<<EvCall("load", "model", "err"),
                       EvSend(Error("Failed to load model"))>>)
    /\ pc' = "recv"
    /\ UNCHANGED <<cmd_chan, rx_alive, tx_alive, analyze_locals, caller_hist>>
    /\ UNCHANGED <<app_vars, fn_vars>>

\* run_analysis_worker, up to the loop: LlamaAnalyzer::new, and the message
\* that tells its outcome.
WorkerLoad ==
    /\ pc = "load"
    /\ \E ok \in BOOLEAN, bos \in BOOLEAN :
        IF ok
        THEN /\ adds_bos' = bos
             /\ Emit(<<EvCall("load", "model", "ok"), EvSend(ModelLoaded)>>)
             /\ pc' = "recv"
             /\ UNCHANGED <<cmd_chan, rx_alive>>
        ELSE /\ bos = FALSE
             /\ adds_bos' = adds_bos
             /\ Emit(<<EvCall("load", "model", "err"),
                       EvSend(Error("Failed to load model"))>>)
             /\ pc' = "load_failed"
             /\ UNCHANGED <<cmd_chan, rx_alive>>
    /\ UNCHANGED <<tx_alive, analyze_locals, caller_hist>>
    /\ UNCHANGED <<app_vars, fn_vars>>

\* The return of the Err arm, after the Error was sent: only now is the
\* Receiver dropped.
WorkerLoadFailed ==
    /\ pc = "load_failed"
    /\ WorkerReturn
    /\ UNCHANGED <<adds_bos, tx_alive, msg_chan, trace, analyze_locals,
                   caller_hist>>
    /\ UNCHANGED <<app_vars, fn_vars>>

\* count_tokens that tokenizes as analyze does, with AddBos::Always.
count_tokens_Always(txt, bos) ==
    LET r == str_to_token(txt, TRUE, bos)
    IN IF r.ok THEN Len(r.tokens) ELSE 0

\* count_tokens(text) on a model with the given marker setting.
count_tokens(txt, bos) ==
    LET r == str_to_token(txt, FALSE, bos)
    IN IF r.ok THEN Len(r.tokens) ELSE 0

\* A channel that hands out the newest command.
RecvIndex_Newest(chan) == Len(chan)

\* The index of the command cmd_rx.recv() hands out: the oldest.
RecvIndex(chan) == 1

\* The channel without the command recv() handed out.
RecvRest(chan) ==
    SubSeq(chan, 1, RecvIndex(chan) - 1)
    \o SubSeq(chan, RecvIndex(chan) + 1, Len(chan))

\* recv() returned Ok(WorkerCommand::Analyze(text)).
RecvAnalyze ==
    /\ pc = "recv"
    /\ cmd_chan # <<>>
    /\ LET cmd == cmd_chan[RecvIndex(cmd_chan)]
       IN /\ cmd.type = "Analyze"
          /\ Emit(<<EvRecv(cmd), EvSend(Started)>>)
          /\ text' = cmd.text
    /\ pc' = "analyze"
    /\ cmd_chan' = RecvRest(cmd_chan)
    /\ UNCHANGED <<adds_bos, tx_alive, rx_alive, tokens, processed_count,
                   compact_results, caller_hist>>
    /\ UNCHANGED <<app_vars, fn_vars>>

\* recv() returned Ok(WorkerCommand::Tokenize(text)).
RecvTokenize ==
    /\ pc = "recv"
    /\ cmd_chan # <<>>
    /\ LET cmd == cmd_chan[RecvIndex(cmd_chan)]
           r == str_to_token(cmd.text, FALSE, adds_bos)
       IN /\ cmd.type = "Tokenize"
          /\ Emit(<<EvRecv(cmd),
                    EvCall("tokenize", cmd.text, IF r.ok THEN "ok" ELSE "err"),
                    EvSend(TokenCount(count_tokens(cmd.text, adds_bos)))>>)
    /\ cmd_chan' = RecvRest(cmd_chan)
    /\ UNCHANGED <<pc, adds_bos, tx_alive, rx_alive, analyze_locals,
                   caller_hist>>
    /\ UNCHANGED <<app_vars, fn_vars>>

\* RecvShutdown without the break: the worker goes on receiving.
RecvShutdown_NoBreak ==
    /\ pc = "recv"
    /\ cmd_chan # <<>>
    /\ LET cmd == cmd_chan[RecvIndex(cmd_chan)]
       IN /\ cmd.type = "Shutdown"
          /\ Emit(<<EvRecv(cmd)>>)
    /\ cmd_chan' = RecvRest(cmd_chan)
    /\ UNCHANGED <<pc, rx_alive, adds_bos, tx_alive, analyze_locals,
                   caller_hist>>
    /\ UNCHANGED <<app_vars, fn_vars>>

\* recv() returned Ok(WorkerCommand::Shutdown).
RecvShutdown ==
    /\ pc = "recv"
    /\ cmd_chan # <<>>
    /\ LET cmd == cmd_chan[RecvIndex(cmd_chan)]
       IN /\ cmd.type = "Shutdown"
          /\ Emit(<<EvRecv(cmd)>>)
    /\ WorkerReturn
    /\ UNCHANGED <<adds_bos, tx_alive, analyze_locals, caller_hist>>
    /\ UNCHANGED <<app_vars, fn_vars>>

\* RecvDisconnected that reports the disconnect as an error.
RecvDisconnected_Error ==
    /\ pc = "recv"
    /\ cmd_chan = <<>>
    /\ ~tx_alive
    /\ Emit(<<EvDisconnected, EvSend(Error("Command channel closed"))>>)
    /\ WorkerReturn
    /\ UNCHANGED <<adds_bos, tx_alive, analyze_locals, caller_hist>>
    /\ UNCHANGED <<app_vars, fn_vars>>

\* recv() returned Err: every Sender is gone and the channel is empty.
RecvDisconnected ==
    /\ pc = "recv"
    /\ cmd_chan = <<>>
    /\ ~tx_alive
    /\ Emit(<<EvDisconnected>>)
    /\ WorkerReturn
    /\ UNCHANGED <<adds_bos, tx_alive, analyze_locals, caller_hist>>
    /\ UNCHANGED <<app_vars, fn_vars>>

\* n_ctx = (total_tokens + 512).max(4096)
n_ctx(total_tokens) ==
    IF total_tokens + ctx_margin > ctx_min THEN total_tokens + ctx_margin
    ELSE ctx_min

\* An Err arm that sends nothing.
AnalyzeErr_Silent(evs, message) ==
    /\ Emit(evs)
    /\ AnalyzeReturn

\* An Err arm that falls through to the Ok arm with what it has.
AnalyzeErr_FallThrough(evs, message) ==
    /\ Emit(evs \o <<EvSend(Error(message)), EvSend(Completed(<<>>))>>)
    /\ AnalyzeReturn

\* The Err arm of the worker after analyze failed: the events evs of the
\* step so far, then the Error message.
AnalyzeErr(evs, message) ==
    /\ Emit(evs \o <<EvSend(Error(message))>>)
    /\ AnalyzeReturn

\* The positions of the worker inside the Analyze arm of its loop.
AnalyzePcs == {"analyze", "tokenize", "chunks", "decode", "format"}

\* analyze without its early return.
tokens_is_empty_Never(toks) == FALSE

\* tokens.is_empty()
tokens_is_empty(toks) == toks = <<>>

\* analyze, from its entry to the call of the tokenizer: the first Progress.
AnalyzeBegin ==
    /\ pc = "analyze"
    /\ Emit(<<EvSend(Progress(0, 1))>>)
    /\ pc' = "tokenize"
    /\ UNCHANGED <<text, tokens, processed_count, compact_results>>
    /\ UNCHANGED <<adds_bos, cmd_chan, tx_alive, rx_alive, caller_hist>>
    /\ UNCHANGED <<app_vars, fn_vars>>

\* analyze, from the call of the tokenizer to the start of the chunk loop,
\* with the worker's arm for each of its returns.
AnalyzeTokenize ==
    /\ pc = "tokenize"
    /\ LET r == str_to_token(text, TRUE, adds_bos)
           head == <<EvCall("tokenize", text, IF r.ok THEN "ok" ELSE "err")>>
       IN IF ~r.ok
          THEN AnalyzeErr(head, "Failed to tokenize")
          ELSE IF tokens_is_empty(r.tokens)
          THEN /\ Emit(head \o <<EvSend(Completed(<<>>))>>)
               /\ AnalyzeReturn
          ELSE \E ctx_ok \in BOOLEAN :
               IF ctx_ok
               THEN /\ Emit(head \o <<EvCall("new_context",
                                             n_ctx(Len(r.tokens)), "ok")>>)
                    /\ pc' = "chunks"
                    /\ tokens' = r.tokens
                    /\ processed_count' = 0
                    /\ compact_results' = <<>>
                    /\ UNCHANGED text
               ELSE AnalyzeErr(head \o <<EvCall("new_context",
                                                n_ctx(Len(r.tokens)), "err")>>,
                               "Failed to create context")
    /\ UNCHANGED <<adds_bos, cmd_chan, tx_alive, rx_alive, caller_hist>>
    /\ UNCHANGED <<app_vars, fn_vars>>

Min(a, b) == IF a < b THEN a ELSE b

\* The chunk tokens.chunks(cap) yields when processed tokens precede it.
ChunkOf(toks, processed, cap) ==
    SubSeq(toks, processed + 1, Min(processed + cap, Len(toks)))

\* The chunk tokens.chunks(n_batch) yields when processed tokens precede it.
Chunk(toks, processed) == ChunkOf(toks, processed, n_batch)

\* A batch whose positions restart at 0 in every chunk.
Batch_LocalPos(chunk, processed) ==
    [i \in 1..Len(chunk) |-> [token |-> chunk[i], pos |-> i - 1]]

\* The batch after the add loop: each token with its absolute position.
Batch(chunk, processed) ==
    [i \in 1..Len(chunk) |-> [token |-> chunk[i], pos |-> processed + i - 1]]

\* An extraction loop that looks up the next token by the index within the
\* chunk.
Extract_LocalNext(toks, batch, processed) ==
    [i \in 1..Len(batch) |->
        LET next_token == IF i < Len(toks) THEN toks[i + 1] ELSE NoTarget
            logits == candidates_ith(batch, i)
        IN IF next_token # NoTarget
           THEN IF logits = <<>> THEN <<1, 0, <<>> >>
                ELSE calculate_token_metrics(logits, next_token)
           ELSE <<1, 0, <<>> >>]

\* The extraction loop over one decoded chunk.
Extract(toks, batch, processed) ==
    [i \in 1..Len(batch) |->
        LET global_pos == processed + i - 1
            next_token == IF global_pos + 1 < Len(toks)
                          THEN toks[global_pos + 2] ELSE NoTarget
            logits == candidates_ith(batch, i)
        IN IF next_token # NoTarget
           THEN IF logits = <<>> THEN <<1, 0, <<>> >>
                ELSE calculate_token_metrics(logits, next_token)
           ELSE <<1, 0, <<>> >>]

\* The body of the chunk loop after its Progress, for the chunk that starts
\* at processed_count: the add loop, the decode and the extraction loop.
ChunkStep ==
    LET chunk == Chunk(tokens, processed_count)
        batch == Batch(chunk, processed_count)
        span == [first |-> batch[1].pos, n |-> Len(batch)]
    IN \E outcome \in {"ok", "add_err", "decode_err"} :
       CASE outcome = "add_err" ->
              AnalyzeErr(<<EvCall("batch_add", span, "err")>>,
                         "Failed to add token to batch")
         [] outcome = "decode_err" ->
              AnalyzeErr(<<EvCall("batch_add", span, "ok"),
                           EvCall("decode", span, "err")>>,
                         "Failed to decode batch")
         [] OTHER ->
              /\ Emit(<<EvCall("batch_add", span, "ok"),
                        EvCall("decode", span, "ok")>>)
              /\ compact_results' = compact_results
                     \o Extract(tokens, batch, processed_count)
              /\ processed_count' = processed_count + Len(chunk)
              /\ pc' = "chunks"
              /\ UNCHANGED <<text, tokens>>

\* The Progress at the top of an iteration of the chunk loop.
ChunkProgress(processed, total) ==
    /\ Emit(<<EvSend(Progress(processed, total))>>)
    /\ pc' = "decode"
    /\ UNCHANGED <<text, tokens, processed_count, compact_results>>

\* A chunk loop that looks for a waiting shutdown before each chunk and
\* leaves the worker when it finds one.
AnalyzeChunk_Cancel ==
    /\ pc = "chunks"
    /\ processed_count < Len(tokens)
    /\ IF ~tx_alive \/ \E k \in 1..Len(cmd_chan) : cmd_chan[k] = Shutdown
       THEN /\ WorkerReturn
            /\ UNCHANGED <<trace, msg_chan, analyze_locals, tx_alive>>
       ELSE /\ ChunkProgress(processed_count, Len(tokens))
            /\ UNCHANGED <<cmd_chan, tx_alive, rx_alive>>
    /\ UNCHANGED <<adds_bos, caller_hist>>
    /\ UNCHANGED <<app_vars, fn_vars>>

\* A chunk loop whose Progress counts the chunk it is about to decode.
AnalyzeChunk_ProgressAhead ==
    /\ pc = "chunks"
    /\ processed_count < Len(tokens)
    /\ ChunkProgress(processed_count + Len(Chunk(tokens, processed_count)),
                     Len(tokens))
    /\ UNCHANGED <<adds_bos, cmd_chan, tx_alive, rx_alive, caller_hist>>
    /\ UNCHANGED <<app_vars, fn_vars>>

\* A chunk loop that reports progress once the chunk is decoded.
AnalyzeChunk_ProgressAfter ==
    /\ pc = "chunks"
    /\ processed_count < Len(tokens)
    /\ LET chunk == Chunk(tokens, processed_count)
           batch == Batch(chunk, processed_count)
           span == [first |-> batch[1].pos, n |-> Len(batch)]
       IN /\ Emit(<<EvCall("batch_add", span, "ok"),
                    EvCall("decode", span, "ok"),
                    EvSend(Progress(processed_count, Len(tokens)))>>)
          /\ compact_results' = compact_results
                 \o Extract(tokens, batch, processed_count)
          /\ processed_count' = processed_count + Len(chunk)
          /\ UNCHANGED <<pc, text, tokens>>
    /\ UNCHANGED <<adds_bos, cmd_chan, tx_alive, rx_alive, caller_hist>>
    /\ UNCHANGED <<app_vars, fn_vars>>

\* The top of one iteration of the chunk loop: the chunk is taken and its
\* Progress is sent.
AnalyzeChunk ==
    /\ pc = "chunks"
    /\ processed_count < Len(tokens)
    /\ ChunkProgress(processed_count, Len(tokens))
    /\ UNCHANGED <<adds_bos, cmd_chan, tx_alive, rx_alive, caller_hist>>
    /\ UNCHANGED <<app_vars, fn_vars>>

\* The rest of the iteration: the chunk is added, decoded and extracted, or
\* analyze returns the failure and the worker sends Error.
AnalyzeDecode ==
    /\ pc = "decode"
    /\ ChunkStep
    /\ UNCHANGED <<adds_bos, cmd_chan, tx_alive, rx_alive, caller_hist>>
    /\ UNCHANGED <<app_vars, fn_vars>>

\* AnalyzedTokens that pair token i with the metrics recorded at its own
\* position instead of the position before it.
Format_Unshifted(toks, results) ==
    [i \in 1..Len(toks) |->
        LET r == IF i = 1 THEN <<1, 0, <<>> >> ELSE results[i]
            top_predictions ==
                [k \in 1..Len(r[3]) |-> <<token_to_str(r[3][k][1]), r[3][k][2]>>]
        IN AnalyzedToken(token_to_str(toks[i]), r[1], top_predictions, r[2])]

\* The AnalyzedTokens built after the loop.
Format(toks, results) ==
    [i \in 1..Len(toks) |->
        LET r == IF i = 1 THEN <<1, 0, <<>> >> ELSE results[i - 1]
            top_predictions ==
                [k \in 1..Len(r[3]) |-> <<token_to_str(r[3][k][1]), r[3][k][2]>>]
        IN AnalyzedToken(token_to_str(toks[i]), r[1], top_predictions, r[2])]

\* A finish without the last Progress.
FinishEvents_NoLastProgress(toks) == <<>>

\* What analyze sends once the chunk loop is over: the last Progress.
FinishEvents(toks) == <<EvSend(Progress(Len(toks), Len(toks)))>>

\* analyze after the chunk loop, up to the format loop.
AnalyzeFinish ==
    /\ pc = "chunks"
    /\ processed_count >= Len(tokens)
    /\ Emit(FinishEvents(tokens))
    /\ pc' = "format"
    /\ UNCHANGED <<text, tokens, processed_count, compact_results>>
    /\ UNCHANGED <<adds_bos, cmd_chan, tx_alive, rx_alive, caller_hist>>
    /\ UNCHANGED <<app_vars, fn_vars>>

\* An Ok arm followed by one more Progress.
CompletedEvents_ProgressLast(toks, results) ==
    <<EvSend(Completed(Format(toks, results))),
      EvSend(Progress(Len(toks), Len(toks)))>>

\* What the worker's Ok arm sends with the result analyze returned.
CompletedEvents(toks, results) ==
    <<EvSend(Completed(Format(toks, results)))>>

\* The format loop of analyze, its return, and the worker's Ok arm.
AnalyzeFormat ==
    /\ pc = "format"
    /\ Emit(CompletedEvents(tokens, compact_results))
    /\ AnalyzeReturn
    /\ UNCHANGED <<adds_bos, cmd_chan, tx_alive, rx_alive, caller_hist>>
    /\ UNCHANGED <<app_vars, fn_vars>>

\* ------------------------------------------------------------ the caller
\* tx.send(cmd): Ok while the worker holds its Receiver, Err afterwards.
CallerSend ==
    /\ tx_alive
    /\ Len(sent_cmds) < MaxCmds
    /\ \E cmd \in Commands :
        IF rx_alive
        THEN /\ cmd_chan' = Append(cmd_chan, cmd)
             /\ sent_cmds' = Append(sent_cmds, cmd)
             /\ last_send' = "ok"
        ELSE /\ last_send' = "err"
             /\ UNCHANGED <<cmd_chan, sent_cmds>>
    /\ UNCHANGED <<pc, adds_bos, tx_alive, rx_alive, msg_chan,
                   analyze_locals, trace>>
    /\ UNCHANGED <<app_vars, fn_vars>>

\* The caller drops its Sender without sending Shutdown.
CallerDrop ==
    /\ tx_alive
    /\ tx_alive' = FALSE
    /\ UNCHANGED <<pc, adds_bos, cmd_chan, rx_alive, msg_chan,
                   analyze_locals, caller_hist, trace>>
    /\ UNCHANGED <<app_vars, fn_vars>>

Next ==
    \/ WorkerLoad
    \/ WorkerLoadFailed
    \/ RecvAnalyze
    \/ RecvTokenize
    \/ RecvShutdown
    \/ RecvDisconnected
    \/ AnalyzeBegin
    \/ AnalyzeTokenize
    \/ AnalyzeChunk
    \/ AnalyzeDecode
    \/ AnalyzeFinish
    \/ AnalyzeFormat
    \/ CallerSend
    \/ CallerDrop

Spec == Init /\ [][Next]_vars

\* ------------------------------------------------------------ PerplexApp
\* Number of load_model calls in one run of the application.
MaxLoads == 2

\* The texts the user may type.
AppTexts == { <<>>, <<NUL>>, <<"a", "\n", "b">> }

\* The application before its first load_model: no worker, no channels.
AppInit ==
    /\ pc = "unspawned"
    /\ adds_bos = FALSE
    /\ cmd_chan = <<>>
    /\ tx_alive = FALSE
    /\ rx_alive = FALSE
    /\ msg_chan = <<>>
    /\ text = <<>>
    /\ tokens = <<>>
    /\ processed_count = 0
    /\ compact_results = <<>>
    /\ sent_cmds = <<>>
    /\ last_send = "none"
    /\ trace = <<>>
    /\ AppDefault
    /\ FnIdle

\* tx.send(cmd) on the caller's Sender: the channel takes the command while
\* the worker holds its Receiver; otherwise the send returns Err.
SendOk == rx_alive

ChannelSend(cmd) ==
    IF SendOk
    THEN /\ cmd_chan' = Append(cmd_chan, cmd)
         /\ sent_cmds' = Append(sent_cmds, cmd)
         /\ last_send' = "ok"
    ELSE /\ last_send' = "err"
         /\ UNCHANGED <<cmd_chan, sent_cmds>>

\* shutdown_worker up to its join: take the Sender, send Shutdown, drop the
\* Sender.
ShutdownSend ==
    /\ IF tx_alive
       THEN ChannelSend(Shutdown)
       ELSE UNCHANGED <<cmd_chan, sent_cmds, last_send>>
    /\ tx_alive' = FALSE

\* A worker thread that was spawned and has not returned.
WorkerRunning == pc \notin {"unspawned", "done"}

\* A join that returns whether or not the thread has finished.
Joined_NoWait == TRUE

\* handle.join() returns: there is no handle to join, or the worker thread
\* has returned.
Joined == worker_handle => ~WorkerRunning

\* The places of update() a handler can run from, in the order update()
\* passes them: the model panel, the text input, the controls, the settings
\* window.  update() polls once, before the first, and never goes back.
FrameStages == <<"frame", "input", "controls", "settings">>

\* The places of update() up to the n-th.
StagesUpTo(n) == {FrameStages[k] : k \in 1..n}

\* load_model up to the join inside shutdown_worker, called from one of the
\* places stages of update(); join names the caller it returns to.
AppLoadModel(stages, join) ==
    /\ app_pc \in stages
    /\ n_loads < MaxLoads
    /\ model_path' = TRUE
    /\ ShutdownSend
    /\ app_pc' = join
    /\ n_loads' = n_loads + 1
    /\ UNCHANGED <<pc, adds_bos, rx_alive, msg_chan, analyze_locals, trace,
                   input_text, analysis_result, error_message,
                   is_loading_model, is_analyzing, progress, token_count,
                   worker_rx, worker_handle, polled, orphans, fn_vars>>

\* The model panel's button is clicked and a file is chosen: select_model
\* calls load_model.
AppSelectModel == AppLoadModel(StagesUpTo(1), "join_select")

\* The settings window's Save with a path: load_model, the last thing
\* update() does.
AppSaveModel == AppLoadModel(StagesUpTo(4), "join_load")

\* Where the caller of load_model goes on: select_model returns into
\* update(), which goes on to the text input; Save ends update().
AfterLoad == IF app_pc = "join_select" THEN "input" ELSE "idle"

\* A load_model that keeps the message channel it had: the new worker sends
\* into it, behind what the old worker left there.
AppLoadModelSpawn_KeepChannel ==
    /\ app_pc \in {"join_select", "join_load"}
    /\ Joined
    /\ orphans' = orphans + (IF WorkerRunning THEN 1 ELSE 0)
    /\ is_loading_model' = TRUE
    /\ error_message' = <<>>
    /\ analysis_result' = <<>>
    /\ tx_alive' = TRUE
    /\ worker_rx' = TRUE
    /\ worker_handle' = TRUE
    /\ pc' = "load"
    /\ adds_bos' = FALSE
    /\ cmd_chan' = <<>>
    /\ rx_alive' = TRUE
    /\ text' = <<>>
    /\ tokens' = <<>>
    /\ processed_count' = 0
    /\ compact_results' = <<>>
    /\ sent_cmds' = <<>>
    /\ last_send' = "none"
    /\ trace' = <<>>
    /\ app_pc' = AfterLoad
    /\ UNCHANGED <<msg_chan, polled, model_path, input_text, is_analyzing,
                   progress, token_count, n_loads, fn_vars>>

\* load_model from the return of the join: the rest of shutdown_worker, the
\* two new channels and the new worker thread.
AppLoadModelSpawn ==
    /\ app_pc \in {"join_select", "join_load"}
    /\ Joined
    /\ orphans' = orphans + (IF WorkerRunning THEN 1 ELSE 0)
    /\ is_loading_model' = TRUE
    /\ error_message' = <<>>
    /\ analysis_result' = <<>>
    /\ tx_alive' = TRUE
    /\ worker_rx' = TRUE
    /\ worker_handle' = TRUE
    /\ polled' = 0
    /\ pc' = "load"
    /\ adds_bos' = FALSE
    /\ cmd_chan' = <<>>
    /\ rx_alive' = TRUE
    /\ msg_chan' = <<>>
    /\ text' = <<>>
    /\ tokens' = <<>>
    /\ processed_count' = 0
    /\ compact_results' = <<>>
    /\ sent_cmds' = <<>>
    /\ last_send' = "none"
    /\ trace' = <<>>
    /\ app_pc' = AfterLoad
    /\ UNCHANGED <<model_path, input_text, is_analyzing, progress,
                   token_count, n_loads, fn_vars>>

\* can_analyze() without the look at is_loading_model.
can_analyze_WhileLoading ==
    /\ model_path
    /\ input_text # <<>>
    /\ tx_alive

\* can_analyze()
can_analyze ==
    /\ model_path
    /\ input_text # <<>>
    /\ ~is_loading_model
    /\ tx_alive

\* The Analyze button is enabled and clicked: start_analysis; update() goes
\* on to the settings window.
AppStartAnalysis ==
    /\ app_pc \in StagesUpTo(3)
    /\ can_analyze /\ ~is_analyzing
    /\ Len(sent_cmds) < MaxCmds
    /\ tx_alive
    /\ ChannelSend(Analyze(input_text))
    /\ IF SendOk
       THEN /\ is_analyzing' = TRUE
            /\ error_message' = <<>>
       ELSE /\ is_analyzing' = FALSE
            /\ error_message' = <<"Failed to send command">>
    /\ progress' = <<0>>
    /\ app_pc' = "settings"
    /\ UNCHANGED <<pc, adds_bos, tx_alive, rx_alive, msg_chan, analyze_locals,
                   trace, model_path, input_text, analysis_result,
                   is_loading_model, token_count, worker_rx, worker_handle,
                   polled, orphans, n_loads, fn_vars>>

\* The user edits the text (the editor is disabled during an analysis): a
\* Tokenize command goes to the worker, if there is one; update() goes on to
\* the controls.
AppTextChanged ==
    /\ app_pc \in StagesUpTo(2)
    /\ ~is_analyzing
    /\ Len(sent_cmds) < MaxCmds
    /\ \E t \in AppTexts :
        /\ t # input_text
        /\ input_text' = t
        /\ IF tx_alive
           THEN ChannelSend(Tokenize(t))
           ELSE UNCHANGED <<cmd_chan, sent_cmds, last_send>>
    /\ app_pc' = "controls"
    /\ UNCHANGED <<pc, adds_bos, tx_alive, rx_alive, msg_chan, analyze_locals,
                   trace, model_path, analysis_result, error_message,
                   is_loading_model, is_analyzing, progress, token_count,
                   worker_rx, worker_handle, polled, orphans, n_loads,
                   fn_vars>>

\* The fields process_worker_messages writes.
AppFields ==
    [is_loading_model |-> is_loading_model, is_analyzing |-> is_analyzing,
     progress |-> progress, token_count |-> token_count,
     analysis_result |-> analysis_result, error_message |-> error_message]

\* current as f32 / total.max(1) as f32
Fraction(current, total) ==
    (current * SCALE) \div (IF total > 1 THEN total ELSE 1)

\* One arm of the match in process_worker_messages.
ApplyMsg(st, m) ==
    CASE m.type = "ModelLoaded" ->
           [st EXCEPT !.is_loading_model = FALSE]
      [] m.type = "Started" ->
           [st EXCEPT !.is_analyzing = TRUE, !.progress = <<0>>]
      [] m.type = "Progress" ->
           [st EXCEPT !.progress = <<Fraction(m.current, m.total)>>]
      [] m.type = "TokenCount" ->
           [st EXCEPT !.token_count = <<m.count>>]
      [] m.type = "Completed" ->
           [st EXCEPT !.analysis_result = <<m.result>>,
                      !.is_analyzing = FALSE, !.progress = <<>>]
      [] OTHER ->
           [st EXCEPT !.error_message = <<m.message>>,
                      !.is_analyzing = FALSE, !.is_loading_model = FALSE,
                      !.progress = <<>>]

\* while let Ok(msg) = rx.try_recv()
RECURSIVE ApplyAll(_, _)
ApplyAll(st, msgs) ==
    IF msgs = <<>> THEN st
    ELSE ApplyAll(ApplyMsg(st, Head(msgs)), Tail(msgs))

\* The start of a frame: update() calls process_worker_messages, which
\* reads what the Receiver holds, if there is a Receiver.
AppProcessMessages ==
    /\ app_pc = "idle"
    /\ IF worker_rx
       THEN /\ LET st == ApplyAll(AppFields,
                                  SubSeq(msg_chan, polled + 1, Len(msg_chan)))
               IN /\ is_loading_model' = st.is_loading_model
                  /\ is_analyzing' = st.is_analyzing
                  /\ progress' = st.progress
                  /\ token_count' = st.token_count
                  /\ analysis_result' = st.analysis_result
                  /\ error_message' = st.error_message
            /\ polled' = Len(msg_chan)
       ELSE UNCHANGED <<is_loading_model, is_analyzing, progress, token_count,
                        analysis_result, error_message, polled>>
    /\ app_pc' = "frame"
    /\ UNCHANGED <<worker_vars, model_path, input_text, worker_rx,
                   worker_handle, orphans, n_loads, fn_vars>>

\* update() returns: none of the handlers it has not passed yet runs in this
\* frame.
AppFrameDone ==
    /\ app_pc \in StagesUpTo(4)
    /\ app_pc' = "idle"
    /\ UNCHANGED <<worker_vars, model_path, input_text, analysis_result,
                   error_message, is_loading_model, is_analyzing, progress,
                   token_count, worker_rx, worker_handle, polled, orphans,
                   n_loads, fn_vars>>

\* The settings window's Save with an empty path, the last thing update()
\* does, up to the join inside shutdown_worker.
AppClearModel ==
    /\ app_pc \in StagesUpTo(4)
    /\ model_path
    /\ model_path' = FALSE
    /\ ShutdownSend
    /\ app_pc' = "join_clear"
    /\ UNCHANGED <<pc, adds_bos, rx_alive, msg_chan, analyze_locals, trace,
                   input_text, analysis_result, error_message,
                   is_loading_model, is_analyzing, progress, token_count,
                   worker_rx, worker_handle, polled, orphans, n_loads,
                   fn_vars>>

\* Settings saved with an empty path, from the return of the join; the
\* frame is over.
AppClearModelDone ==
    /\ app_pc = "join_clear"
    /\ Joined
    /\ orphans' = orphans + (IF WorkerRunning THEN 1 ELSE 0)
    /\ worker_handle' = FALSE
    /\ worker_rx' = FALSE
    /\ analysis_result' = <<>>
    /\ token_count' = <<>>
    /\ app_pc' = "idle"
    /\ UNCHANGED <<worker_vars, model_path, input_text, error_message,
                   is_loading_model, is_analyzing, progress, polled, n_loads,
                   fn_vars>>

\* on_exit, called between two frames, up to the join inside
\* shutdown_worker.
AppExit ==
    /\ app_pc = "idle"
    /\ ShutdownSend
    /\ app_pc' = "join_exit"
    /\ UNCHANGED <<pc, adds_bos, rx_alive, msg_chan, analyze_locals, trace,
                   model_path, input_text, analysis_result, error_message,
                   is_loading_model, is_analyzing, progress, token_count,
                   worker_rx, worker_handle, polled, orphans, n_loads,
                   fn_vars>>

\* on_exit, from the return of the join.
AppExitDone ==
    /\ app_pc = "join_exit"
    /\ Joined
    /\ orphans' = orphans + (IF WorkerRunning THEN 1 ELSE 0)
    /\ worker_handle' = FALSE
    /\ worker_rx' = FALSE
    /\ app_pc' = "exited"
    /\ UNCHANGED <<worker_vars, model_path, input_text, analysis_result,
                   error_message, is_loading_model, is_analyzing, progress,
                   token_count, polled, n_loads, fn_vars>>

\* The application and its worker.  The application never drops its Sender
\* without sending Shutdown first, so its worker's recv() never returns Err.
AppNext ==
    \/ AppSelectModel
    \/ AppSaveModel
    \/ AppLoadModelSpawn
    \/ AppStartAnalysis
    \/ AppTextChanged
    \/ AppProcessMessages
    \/ AppFrameDone
    \/ AppClearModel
    \/ AppClearModelDone
    \/ AppExit
    \/ AppExitDone
    \/ WorkerLoad
    \/ WorkerLoadFailed
    \/ RecvAnalyze
    \/ RecvTokenize
    \/ RecvShutdown
    \/ AnalyzeBegin
    \/ AnalyzeTokenize
    \/ AnalyzeChunk
    \/ AnalyzeDecode
    \/ AnalyzeFinish
    \/ AnalyzeFormat

AppSpec == AppInit /\ [][AppNext]_vars

\* ------------------------------------------- the pure functions, alone
\* No worker and a fresh application: nothing but the function under
\* evaluation moves.
FnBase ==
    /\ pc = "unspawned"
    /\ adds_bos = FALSE
    /\ cmd_chan = <<>>
    /\ tx_alive = FALSE
    /\ rx_alive = FALSE
    /\ msg_chan = <<>>
    /\ text = <<>>
    /\ tokens = <<>>
    /\ processed_count = 0
    /\ compact_results = <<>>
    /\ sent_cmds = <<>>
    /\ last_send = "none"
    /\ trace = <<>>
    /\ AppDefault

\* Longest candidate list tried.
MaxCands == 6

\* The logits the model can give (see Logit).
LogitValues == 0..3

\* Candidate lists as candidates_ith yields them: ids 1..n in id order.
CandLists ==
    UNION { { [id \in 1..n |-> <<id, l[id]>>] : l \in [1..n -> LogitValues] }
            : n \in 0..MaxCands }

\* Arguments of calculate_token_metrics: a candidate list and a target,
\* which is None, one of the ids, or an id the list does not have.
MetricsInputs ==
    { [logits |-> c, target_token |-> t] :
        c \in CandLists, t \in 0..(MaxCands + 1) }

MetricsInit ==
    /\ FnBase
    /\ fn_in \in MetricsInputs
    /\ fn_out = <<>>

MetricsCall ==
    /\ fn_out = <<>>
    /\ fn_out' = calculate_token_metrics(fn_in.logits, fn_in.target_token)
    /\ UNCHANGED <<fn_in, worker_vars, app_vars>>

MetricsSpec == MetricsInit /\ [][MetricsCall]_vars

\* The chunk loop of analyze for a batch capacity cap (n_batch in the
\* program), run on its own over a given token sequence.
Caps == {1, 2, n_batch}

\* Longest of the short token sequences tried.
MaxToks == 2

DriverTokens ==
    { str_to_token(t, TRUE, b).tokens : t \in Texts \ {<<NUL>>}, b \in BOOLEAN }
      \cup UNION { [1..n -> 1..(n_vocab - 1)] : n \in 1..MaxToks }

DriverInit ==
    /\ FnBase
    /\ fn_in \in { [tokens |-> t, cap |-> c] : t \in DriverTokens, c \in Caps }
    /\ fn_out = [processed_count |-> 0, compact_results |-> <<>>]

\* One iteration of the chunk loop whose decode succeeds.
DriverChunk ==
    /\ fn_out.processed_count < Len(fn_in.tokens)
    /\ LET chunk == ChunkOf(fn_in.tokens, fn_out.processed_count, fn_in.cap)
           batch == Batch(chunk, fn_out.processed_count)
       IN fn_out' =
            [processed_count |-> fn_out.processed_count + Len(chunk),
             compact_results |-> fn_out.compact_results
                \o Extract(fn_in.tokens, batch, fn_out.processed_count)]
    /\ UNCHANGED <<fn_in, worker_vars, app_vars>>

DriverSpec == DriverInit /\ [][DriverChunk]_vars

\* ------------------------------------------------ AnalysisResult's figures
\* Real numbers are in units of 1/SCALE.  The value of ln(0) and of what is
\* computed from it:
Inf == -1

\* ln 2 and e, in units of 1/SCALE and 1/1000.
LN2 == 6931
E_MILLI == 2718

\* Fractional bits of a base-2 logarithm.
LOG_BITS == 12

\* The fraction of log2(v / SCALE) for SCALE <= v < 2 * SCALE, bit by bit:
\* each squaring that reaches 2 contributes the bit of weight w.
RECURSIVE log2_frac(_, _, _)
log2_frac(v, w, k) ==
    IF k = 0 THEN 0
    ELSE LET sq == (v * v) \div SCALE
         IN IF sq >= 2 * SCALE
            THEN w + log2_frac(sq \div 2, w \div 2, k - 1)
            ELSE log2_frac(sq, w \div 2, k - 1)

\* f32::log2 of a positive v.
RECURSIVE log2(_)
log2(v) ==
    IF v >= 2 * SCALE THEN SCALE + log2(v \div 2)
    ELSE IF v < SCALE THEN log2(2 * v) - SCALE
    ELSE log2_frac(v, SCALE \div 2, LOG_BITS)

\* -x.ln() for a probability x: infinite at 0.
neg_ln(x) ==
    IF x = 0 THEN Inf ELSE (0 - log2(x) * LN2) \div SCALE

\* The series of exp(f / SCALE) from the term of index n on, 0 <= f < SCALE.
RECURSIVE exp_series(_, _, _)
exp_series(f, term, n) ==
    IF term = 0 THEN 0
    ELSE term + exp_series(f, (term * f) \div (n * SCALE), n + 1)

\* f32::exp of x >= 0.
RECURSIVE exp(_)
exp(x) ==
    IF x = Inf THEN Inf
    ELSE IF x >= SCALE THEN (exp(x - SCALE) * E_MILLI) \div 1000
    ELSE exp_series(x, SCALE, 1)

\* iter().sum() over values that may be infinite.
RECURSIVE sum(_)
sum(s) ==
    IF s = <<>> THEN 0
    ELSE LET rest == sum(Tail(s))
         IN IF s[1] = Inf \/ rest = Inf THEN Inf ELSE s[1] + rest

\* &self.tokens[1..]
tokens_scored(toks) == SubSeq(toks, 2, Len(toks))

\* A mean rank that takes the first token in.
average_rank_All(toks) ==
    IF Len(toks) <= 1 THEN 0
    ELSE (sum([i \in 1..Len(toks) |-> toks[i].rank]) * SCALE) \div Len(toks)

average_rank(toks) ==
    IF Len(toks) <= 1 THEN 0
    ELSE LET scored == tokens_scored(toks)
         IN (sum([i \in 1..Len(scored) |-> scored[i].rank]) * SCALE)
                \div Len(scored)

exact_prediction_percentage(toks) ==
    IF Len(toks) <= 1 THEN 0
    ELSE LET scored == tokens_scored(toks)
             exact == Cardinality({i \in 1..Len(scored) : scored[i].rank = 1})
         IN (exact * SCALE * 100) \div Len(scored)

\* A perplexity that takes the first token in.
perplexity_All(toks) ==
    IF Len(toks) <= 1 THEN 0
    ELSE LET sum_log_probs ==
                 sum([i \in 1..Len(toks) |-> neg_ln(toks[i].probability)])
         IN IF sum_log_probs = Inf THEN Inf
            ELSE exp(sum_log_probs \div Len(toks))

perplexity(toks) ==
    IF Len(toks) <= 1 THEN 0
    ELSE LET scored == tokens_scored(toks)
             sum_log_probs ==
                 sum([i \in 1..Len(scored) |-> neg_ln(scored[i].probability)])
         IN IF sum_log_probs = Inf THEN Inf
            ELSE exp(sum_log_probs \div Len(scored))

text_entropy(toks) ==
    IF Len(toks) <= 1 THEN 0
    ELSE LET ppl == perplexity(toks)
         IN IF ppl = Inf THEN Inf ELSE (Len(toks) * log2(ppl))

\* Longest result tried.
MaxStatLen == 3

\* Ranks and probabilities of the tokens tried.
StatRanks == {1, 5, 10}
StatProbs == {0, 500, 1000, 9000}

StatTokens == { AnalyzedToken("a", r, <<>>, q) : r \in StatRanks, q \in StatProbs }

StatsInit ==
    /\ FnBase
    /\ fn_in \in { [result |-> t] :
                     t \in UNION { [1..n -> StatTokens] : n \in 0..MaxStatLen } }
    /\ fn_out = <<>>

\* The figures of one result, as the statistics panel asks for them.
StatsCall ==
    /\ fn_out = <<>>
    /\ fn_out' = [average_rank |-> average_rank(fn_in.result),
                  exact_prediction_percentage |->
                      exact_prediction_percentage(fn_in.result),
                  perplexity |-> perplexity(fn_in.result),
                  text_entropy |-> text_entropy(fn_in.result)]
    /\ UNCHANGED <<fn_in, worker_vars, app_vars>>

StatsSpec == StatsInit /\ [][StatsCall]_vars

\* ------------------------------------------------- reading the history
IsRecv(e) == e.ev = "recv" \/ e.ev = "recv_err"
IsRecvOf(e, type) == e.ev = "recv" /\ e.cmd.type = type
IsSendOf(e, types) == e.ev = "send" /\ e.msg.type \in types
IsCall(e, op) == e.ev = "call" /\ e.op = op
IsFailedCall(e) == e.ev = "call" /\ e.res = "err"

Terminal == {"Completed", "Error"}

\* Positions in the history where the worker received a command of a type.
RecvsOf(type) == {i \in 1..Len(trace) : IsRecvOf(trace[i], type)}

\* The run of a command received at position i: the events up to the next
\* recv().
SegEnd(i) ==
    LET later == {j \in (i + 1)..Len(trace) : IsRecv(trace[j])}
    IN IF later = {} THEN Len(trace)
       ELSE (CHOOSE j \in later : \A k \in later : j <= k) - 1

SegEvents(i) == SubSeq(trace, i + 1, SegEnd(i))
SegMsgs(i) == Msgs(SegEvents(i))

\* The run is over: the worker is back at recv(), or beyond.
SegClosed(i) == SegEnd(i) < Len(trace) \/ pc \in {"recv", "done"}

Count(seq, P(_)) == Len(SelectSeq(seq, P))

\* The commands the worker received, in order.
Received ==
    LET rs == SelectSeq(trace, LAMBDA e : e.ev = "recv")
    IN [i \in 1..Len(rs) |-> rs[i].cmd]

\* ------------------------------------------------------------------ C1
\* C1: the messages of every Analyze run are, in order, one Started, then
\* only Progress, then (once the run is over) one Completed or Error as
\* the last message; nothing of the run precedes Started or follows the
\* terminal message.
C1_RunOrder ==
    \A i \in RecvsOf("Analyze") :
        LET m == SegMsgs(i)
            n == Len(m)
        IN /\ trace[i + 1] = EvSend(Started)
           /\ n >= 1
           /\ m[1].type = "Started"
           /\ \A k \in 2..(n - 1) : m[k].type = "Progress"
           /\ IF SegClosed(i)
              THEN n >= 2 /\ m[n].type \in Terminal
              ELSE \A k \in 2..n : m[k].type = "Progress"

\* A run over, with Started, several Progress and Completed.
C1_Witness ==
    \E i \in RecvsOf("Analyze") :
        /\ SegClosed(i)
        /\ Len(SegMsgs(i)) >= 5
        /\ SegMsgs(i)[Len(SegMsgs(i))].type = "Completed"

\* ------------------------------------------------------------------ C2
NumAnalyzeSent == Count(sent_cmds, LAMBDA c : c.type = "Analyze")
NumAnalyzeReceived == Cardinality(RecvsOf("Analyze"))
\* Terminal messages sent in answer to commands (the Error of a failed
\* model load answers no command).
NumTerminal ==
    LET first == IF RecvsOf("Analyze") = {} THEN Len(trace) + 1
                 ELSE CHOOSE i \in RecvsOf("Analyze") :
                        \A j \in RecvsOf("Analyze") : i <= j
    IN Count(SubSeq(trace, first, Len(trace)),
             LAMBDA e : IsSendOf(e, Terminal))

\* C2 as stated: once the worker has stopped, every Analyze command the
\* command channel accepted has had exactly one terminal message.
C2_EverySentAnalyzeAnswered ==
    pc = "done" => NumTerminal = NumAnalyzeSent

\* C2 amended: every Analyze command the worker receives gets exactly one
\* terminal message by the time the worker is back at recv() or has
\* stopped, and none before; an Analyze command the worker never receives
\* gets none.
C2_ReceivedAnalyzeAnswered ==
    /\ NumAnalyzeReceived <= NumAnalyzeSent
    /\ IF pc \in AnalyzePcs
       THEN NumTerminal = NumAnalyzeReceived - 1
       ELSE NumTerminal = NumAnalyzeReceived

\* The worker stopped after it received and answered one Analyze.
C2_Witness ==
    /\ pc = "done"
    /\ NumAnalyzeReceived = 1
    /\ NumTerminal = 1
    /\ NumAnalyzeSent = 1

\* ------------------------------------------------------------------ C3
\* C3: when tokenization, context creation, adding to the batch or a decode
\* fails in an Analyze run, the Error message is the very next thing the
\* worker does and the last of that run, the run has no Completed, and the
\* worker is then at recv() with its Receiver, or already serving a later
\* command.
C3_FailureAborts ==
    \A i \in RecvsOf("Analyze") :
        \A j \in (i + 1)..SegEnd(i) :
            IsFailedCall(trace[j]) =>
                /\ j + 1 = SegEnd(i)
                /\ IsSendOf(trace[j + 1], {"Error"})
                /\ Count(SegMsgs(i), LAMBDA m : m.type \in Terminal) = 1
                /\ IF j + 1 = Len(trace)
                   THEN pc = "recv" /\ rx_alive
                   ELSE IsRecv(trace[j + 2])

\* A decode failed in the second chunk, and the worker has answered a later
\* Tokenize.
C3_Witness ==
    \E i \in RecvsOf("Analyze") :
        /\ \E j \in (i + 1)..SegEnd(i) :
              /\ IsCall(trace[j], "decode")
              /\ trace[j].res = "err"
              /\ trace[j].arg.first > 0
        /\ SegEnd(i) + 3 <= Len(trace)
        /\ IsRecvOf(trace[SegEnd(i) + 1], "Tokenize")
        /\ IsSendOf(trace[SegEnd(i) + 3], {"TokenCount"})

\* ------------------------------------------------------------------ C4
\* C4: while the engine loads nothing is sent; a failed load sends one
\* Error and nothing else, ever, and the worker stops without receiving a
\* command; a successful load sends ModelLoaded first and only once.
C4_LoadOutcome ==
    /\ pc = "load" => trace = <<>> /\ msg_chan = <<>>
    /\ pc # "load" =>
        /\ IsCall(trace[1], "load")
        /\ IF trace[1].res = "err"
           THEN /\ msg_chan = <<Error("Failed to load model")>>
                /\ Len(trace) = 2
                /\ pc \in {"load_failed", "done"}
           ELSE /\ msg_chan[1] = ModelLoaded
                /\ Count(msg_chan, LAMBDA m : m.type = "ModelLoaded") = 1

\* The load failed while a command was waiting.
C4_Witness ==
    /\ pc = "done"
    /\ IsFailedCall(trace[1])
    /\ sent_cmds # <<>>

\* ------------------------------------------------------------------ C5
\* C5: receiving Shutdown is the last thing the worker does: it has
\* stopped, and no command behind the Shutdown is received.
C5_ShutdownTerminal ==
    \A i \in RecvsOf("Shutdown") :
        /\ i = Len(trace)
        /\ pc = "done"
        /\ Len(Received) <= Len(sent_cmds)
        /\ Received[Len(Received)] = Shutdown

\* The worker stopped on Shutdown with a command queued behind it.
C5_Witness ==
    /\ RecvsOf("Shutdown") # {}
    /\ Len(sent_cmds) > Len(Received)

\* ------------------------------------------------------------------ C6
ShutdownPending ==
    ~tx_alive \/ \E k \in 1..Len(cmd_chan) : cmd_chan[k] = Shutdown

\* A step taken while an analysis runs.
C6_Step ==
    pc \in AnalyzePcs =>
        /\ pc' \in AnalyzePcs \cup {"recv"}
        /\ rx_alive'
        /\ pc' = "recv" =>
            /\ msg_chan' # msg_chan
            /\ msg_chan'[Len(msg_chan')].type \in Terminal
            /\ msg_chan'[Len(msg_chan')].type = "Completed" =>
                 processed_count = Len(tokens)

\* C6: a step taken while an analysis runs never stops the worker, whatever
\* the command channel holds; the run ends only with a terminal message,
\* and with Completed only once every token has been decoded.
C6_NoInterrupt == [][C6_Step]_vars

\* The first chunk is decoded, the second is not, and a shutdown is
\* waiting.
C6_Witness ==
    /\ pc = "chunks"
    /\ 0 < processed_count
    /\ processed_count < Len(tokens)
    /\ ShutdownPending

\* ------------------------------------------------------------------ C7
IsPrefix(s, t) == Len(s) <= Len(t) /\ s = SubSeq(t, 1, Len(s))

\* C7: the worker receives the commands in the order they were sent,
\* skipping none; what it has received and what the channel holds make up
\* what was sent.  The messages of a Tokenize are sent between its recv()
\* and the next, and a run of Analyze holds no TokenCount.
C7_InOrder ==
    /\ IsPrefix(Received, sent_cmds)
    /\ rx_alive => Received \o cmd_chan = sent_cmds
    /\ \A i \in RecvsOf("Analyze") :
          \A k \in 2..Len(SegMsgs(i)) :
              SegMsgs(i)[k].type \in Terminal \cup {"Progress"}
    /\ \A i \in RecvsOf("Tokenize") :
          Len(SegMsgs(i)) = 1 /\ SegMsgs(i)[1].type = "TokenCount"

\* Two Tokenize commands with different counts were answered, and the
\* answers are in the order of the commands.
C7_Witness ==
    /\ Len(Received) = 2
    /\ Received[1].type = "Tokenize" /\ Received[2].type = "Tokenize"
    /\ Len(msg_chan) = 3
    /\ msg_chan[2].type = "TokenCount" /\ msg_chan[3].type = "TokenCount"
    /\ msg_chan[2].count = Len(Received[1].text)
    /\ msg_chan[3].count = Len(Received[2].text)
    /\ msg_chan[2].count > msg_chan[3].count
    /\ msg_chan[3].count > 0

\* ------------------------------------------------------------------ C8
HasNul(txt) == \E k \in 1..Len(txt) : txt[k] = NUL

\* C8: a Tokenize command makes the worker call the tokenizer and send
\* one TokenCount, nothing else, and leaves it at recv(); the count is 0
\* when the tokenizer fails and the number of tokens of the text otherwise.
C8_TokenizeAnswer ==
    \A i \in RecvsOf("Tokenize") :
        /\ SegEnd(i) = i + 2
        /\ IsCall(trace[i + 1], "tokenize")
        /\ IsSendOf(trace[i + 2], {"TokenCount"})
        /\ trace[i + 1].res = (IF HasNul(trace[i].cmd.text) THEN "err" ELSE "ok")
        /\ trace[i + 2].msg.count =
              (IF HasNul(trace[i].cmd.text) THEN 0 ELSE Len(trace[i].cmd.text))
        /\ i + 2 = Len(trace) => pc = "recv" /\ rx_alive

\* A Tokenize whose text fails to tokenize was answered, on a model that
\* adds a leading marker.
C8_Witness ==
    \E i \in RecvsOf("Tokenize") :
        /\ HasNul(trace[i].cmd.text)
        /\ trace[i + 2].msg = TokenCount(0)
        /\ adds_bos

\* ------------------------------------------------------------------ C9
\* The text of the run at i tokenizes to zero tokens.
ZeroTokens(i) == trace[i].cmd.text = <<>> /\ ~adds_bos

\* C9 as stated: an Analyze whose text has no token sends Started and
\* then Completed with nothing in between.
C9_StartedThenCompleted ==
    \A i \in RecvsOf("Analyze") :
        (ZeroTokens(i) /\ SegClosed(i)) =>
            SegMsgs(i) = <<Started, Completed(<<>>)>>

\* C9 amended: an Analyze whose text has no token sends Started, one
\* Progress(0, 1) and Completed with an empty result, and calls the engine
\* for the tokenization only.
C9_EmptyRun ==
    \A i \in RecvsOf("Analyze") :
        (ZeroTokens(i) /\ SegClosed(i)) =>
            SegEvents(i) = <<EvSend(Started), EvSend(Progress(0, 1)),
                             EvCall("tokenize", <<>>, "ok"),
                             EvSend(Completed(<<>>))>>

C9_Witness ==
    \E i \in RecvsOf("Analyze") :
        /\ ZeroTokens(i)
        /\ SegClosed(i)
        /\ SegMsgs(i)[Len(SegMsgs(i))] = Completed(<<>>)

\* ------------------------------------------------------------------ C10
\* The step of a worker that waits at recv() on an empty channel whose
\* Sender is gone.
C10_Step ==
    (pc = "recv" /\ cmd_chan = <<>> /\ ~tx_alive) =>
        /\ pc' = "done"
        /\ msg_chan' = msg_chan
        /\ SubSeq(trace', 1, Len(trace)) = trace
        /\ \A k \in (Len(trace) + 1)..Len(trace') : trace'[k].ev # "send"

\* C10: when the worker waits at recv() on an empty channel whose Sender is
\* gone, its next step stops it and sends nothing.
C10_SilentExit == [][C10_Step]_vars

\* The worker stopped on a disconnect, after it had served a command.
C10_Witness ==
    /\ pc = "done"
    /\ trace[Len(trace)] = EvDisconnected
    /\ Received # <<>>
    /\ \A k \in 1..Len(sent_cmds) : sent_cmds[k] # Shutdown

\* ------------------------------------------------------------------ C11
Joins == {"join_select", "join_load", "join_clear", "join_exit"}

\* Worker threads alive: the one the caller holds a handle of, if it still
\* runs, and those it lost hold of.
LiveWorkers == orphans + (IF WorkerRunning THEN 1 ELSE 0)

\* C11: at most one worker thread is alive, and none without a handle;
\* while the caller is in the join of shutdown_worker it has given up its
\* Sender, and a worker still running has Shutdown as the last command of
\* its channel.
C11_OneWorker ==
    /\ LiveWorkers <= 1
    /\ orphans = 0
    /\ WorkerRunning => worker_handle
    /\ app_pc \in Joins =>
        /\ ~tx_alive
        /\ WorkerRunning =>
             cmd_chan # <<>> /\ cmd_chan[Len(cmd_chan)] = Shutdown

\* A second worker is loading, spawned while the first one's analysis was
\* still unfinished for the caller.
C11_Witness ==
    /\ n_loads = 2
    /\ pc = "load"
    /\ is_analyzing
    /\ app_pc = "idle"

\* ------------------------------------------------------------------ C12
\* C12: the caller never waits for the worker: whenever it is at the join
\* of shutdown_worker, the join returns at once.
C12_NeverBlocks == app_pc \in Joins => Joined

\* ------------------------------------------------------------------ C13
\* The step on which a run that reached the chunk loop sends Completed.
SendsCompleted ==
    /\ pc = "format"
    /\ Len(msg_chan') > Len(msg_chan)
    /\ msg_chan'[Len(msg_chan')].type = "Completed"

\* What token i (1-based, i >= 2) must carry: the metrics of the candidates
\* the model gives after the token before it, at that token's absolute
\* position, with token i as the target.
ExpectedMetrics(toks, i) ==
    calculate_token_metrics(
        candidates_ith(<<[token |-> toks[i - 1], pos |-> i - 2]>>, 1), toks[i])

C13_Step ==
    SendsCompleted =>
        LET result == msg_chan'[Len(msg_chan')].result
            N == Len(tokens)
        IN /\ N > 0
           /\ tokens = str_to_token(text, TRUE, adds_bos).tokens
           /\ Len(result) = N
           /\ \A i \in 1..N : result[i].text = token_to_str(tokens[i])
           /\ result[1].rank = 1
           /\ result[1].probability = 0
           /\ result[1].top_predictions = <<>>
           /\ \A i \in 2..N :
                LET m == ExpectedMetrics(tokens, i)
                IN /\ result[i].rank = m[1]
                   /\ result[i].probability = m[2]
                   /\ result[i].top_predictions =
                        [k \in 1..Len(m[3]) |->
                            <<token_to_str(m[3][k][1]), m[3][k][2]>>]

\* C13: a successful analysis of N > 0 tokens returns N AnalyzedTokens in
\* token order; the first has rank 1, probability 0 and no predictions, and
\* token i >= 1 carries the metrics of the candidates of position i-1 with
\* token i as the target.
C13_ResultShape == [][C13_Step]_vars

\* A Completed of several tokens in which some token was not the model's
\* first choice.
C13_Witness ==
    \E k \in 1..Len(msg_chan) :
        /\ msg_chan[k].type = "Completed"
        /\ Len(msg_chan[k].result) = 3
        /\ \E i \in 2..3 : /\ msg_chan[k].result[i].rank > 1
                           /\ msg_chan[k].result[i].probability > 0

\* ------------------------------------------------------------------ C14
HasId(logits, id) == \E i \in 1..Len(logits) : logits[i][1] = id

LogitOf(logits, id) ==
    logits[CHOOSE i \in 1..Len(logits) : logits[i][1] = id][2]

\* Candidates with a logit above, or not below, the logit l.
NumAbove(logits, l) ==
    Cardinality({i \in 1..Len(logits) : logits[i][2] > l})
NumNotBelow(logits, l) ==
    Cardinality({i \in 1..Len(logits) : logits[i][2] >= l})

\* C14: calculate_token_metrics gives a present target the rank 1 + its
\* index in the candidates sorted by descending logit, so every candidate
\* with a higher logit stands before it and none with a lower one does, and
\* 1 <= rank <= number of candidates; an absent target, no target and an
\* empty list give rank 1 and probability 0.0; every input has a result.
C14_Rank ==
    fn_out # <<>> /\ "logits" \in DOMAIN fn_in =>
        LET logits == fn_in.logits
            t == fn_in.target_token
            rank == fn_out[1]
        IN /\ Len(fn_out) = 3
           /\ logits = <<>> => fn_out = <<1, 0, <<>> >>
           /\ (t = NoTarget \/ ~HasId(logits, t)) =>
                rank = 1 /\ fn_out[2] = 0
           /\ (t # NoTarget /\ HasId(logits, t)) =>
                /\ 1 <= rank /\ rank <= Len(logits)
                /\ NumAbove(logits, LogitOf(logits, t)) <= rank - 1
                /\ rank - 1 <= NumNotBelow(logits, LogitOf(logits, t)) - 1
                /\ SortDesc(logits)[rank][1] = t
                /\ fn_out[2] > 0

\* A target that three candidates beat, ranked fourth.
C14_Witness ==
    /\ fn_out # <<>>
    /\ "logits" \in DOMAIN fn_in
    /\ Len(fn_in.logits) = MaxCands
    /\ HasId(fn_in.logits, fn_in.target_token)
    /\ NumAbove(fn_in.logits, LogitOf(fn_in.logits, fn_in.target_token)) = 3
    /\ fn_out[1] = 4

\* ------------------------------------------------------------------ C15
\* What position p (0-based) records when every chunk holds one token.
OneByOne(toks, p) == Extract(toks, Batch(<<toks[p + 1]>>, p), p)[1]

\* C15: whatever the batch capacity (1, 2 or 512), the driver records for
\* every position the rank, probability and top predictions that the run
\* with one token per chunk records.
C15_BatchTransparent ==
    "cap" \in DOMAIN fn_in =>
        /\ Len(fn_out.compact_results) = fn_out.processed_count
        /\ \A p \in 0..(fn_out.processed_count - 1) :
              fn_out.compact_results[p + 1] = OneByOne(fn_in.tokens, p)

\* The run with capacity 512 over more than 512 tokens, finished, its second
\* chunk recorded.
C15_Witness ==
    /\ "cap" \in DOMAIN fn_in
    /\ fn_in.cap = n_batch
    /\ Len(fn_in.tokens) > n_batch
    /\ fn_out.processed_count = Len(fn_in.tokens)
    /\ fn_out.compact_results[n_batch + 1][1] > 1

\* ------------------------------------------------------------------ C16
\* The state after the figures of a result were computed.
StatsDone == fn_out # <<>> /\ "result" \in DOMAIN fn_in

RECURSIVE RankTotal(_, _)
RankTotal(toks, from) ==
    IF from > Len(toks) THEN 0 ELSE toks[from].rank + RankTotal(toks, from + 1)

NumExact(toks, from) ==
    Cardinality({i \in from..Len(toks) : toks[i].rank = 1})

\* C16: average_rank is the sum of the ranks of the N-1 tokens after the
\* first divided by N-1, exact_prediction_percentage is 100 times the number
\* of them with rank 1 divided by N-1 (both to the last digit kept), both
\* are 0 when N <= 1, and the ranks 1, 5, 10 give 7.5.
C16_Averages ==
    StatsDone =>
        LET toks == fn_in.result
            N == Len(toks)
            avg == fn_out.average_rank
            pct == fn_out.exact_prediction_percentage
        IN /\ N <= 1 => avg = 0 /\ pct = 0
           /\ N > 1 =>
                /\ avg * (N - 1) <= RankTotal(toks, 2) * SCALE
                /\ RankTotal(toks, 2) * SCALE < (avg + 1) * (N - 1)
                /\ pct * (N - 1) <= NumExact(toks, 2) * 100 * SCALE
                /\ NumExact(toks, 2) * 100 * SCALE < (pct + 1) * (N - 1)
           /\ (N = 3 /\ toks[1].rank = 1 /\ toks[2].rank = 5
                     /\ toks[3].rank = 10) => avg = 75000

\* The result of the example, its figures computed.
C16_Witness ==
    /\ StatsDone
    /\ Len(fn_in.result) = 3
    /\ fn_in.result[1].rank = 1
    /\ fn_in.result[2].rank = 5
    /\ fn_in.result[3].rank = 10
    /\ fn_out.average_rank = 75000
    /\ fn_out.exact_prediction_percentage = 0

\* ------------------------------------------------------------------ C17
\* Tolerance of the example, 0.1.
PplTolerance == 1000

ScoredProbs(toks) == { toks[i].probability : i \in 2..Len(toks) }

\* C17: perplexity is the exponential of the mean of -ln(probability) over
\* the tokens after the first, so it does not depend on the first token, is
\* the inverse of the probability when one token is scored, and lies
\* between the inverses of the largest and the smallest probability;
\* probabilities 0.9, 0.1, 0.05 give 14.14 within 0.1; it is 0 together
\* with text_entropy when N <= 1, and infinite when a probability after the
\* first is 0.
C17_Perplexity ==
    StatsDone =>
        LET toks == fn_in.result
            N == Len(toks)
            ppl == fn_out.perplexity
            probs == ScoredProbs(toks)
        IN /\ N <= 1 => ppl = 0 /\ fn_out.text_entropy = 0
           /\ (N > 1 /\ 0 \in probs) => ppl = Inf
           /\ (N > 1 /\ 0 \notin probs) =>
                /\ ppl # Inf
                /\ ppl = perplexity([toks EXCEPT ![1].probability = 0])
                /\ \A q \in probs :
                     /\ (\A r \in probs : q >= r) =>
                            ppl * (q \div 100) >= (SCALE - 100) * (SCALE \div 100)
                     /\ (\A r \in probs : q <= r) =>
                            ppl * (q \div 100) <= (SCALE + 100) * (SCALE \div 100)
           /\ (N = 3 /\ toks[2].probability = 1000
                     /\ toks[3].probability = 500) =>
                /\ ppl - 141400 < PplTolerance
                /\ 141400 - ppl < PplTolerance

\* The result of the example with a first token of probability 0.9, its
\* perplexity computed.
C17_Witness ==
    /\ StatsDone
    /\ Len(fn_in.result) = 3
    /\ fn_in.result[1].probability = 9000
    /\ fn_in.result[2].probability = 1000
    /\ fn_in.result[3].probability = 500
    /\ fn_out.perplexity > 140000
    /\ fn_out.perplexity < 143000

\* ------------------------------------------------------------------ C18
\* The softmax probabilities of all candidates, in list order.
Softmax(logits) ==
    [i \in 1..Len(logits) |->
        Prob(logits[i][2], MaxLogit(logits), SumExp(logits, MaxLogit(logits)))]

\* C18: for a non-empty candidate list the probabilities of all candidates
\* sum to 1 (each is cut to 1/SCALE, so the sum may fall short by one unit
\* per candidate); the probability of a present target and of each top
\* prediction is that candidate's softmax probability, so a target among
\* the top predictions carries the same value in both places.
C18_Softmax ==
    (fn_out # <<>> /\ "logits" \in DOMAIN fn_in /\ fn_in.logits # <<>>) =>
        LET logits == fn_in.logits
            t == fn_in.target_token
            rank == fn_out[1]
            top == fn_out[3]
            p == Softmax(logits)
        IN /\ sum(p) <= SCALE
           /\ sum(p) >= SCALE - Len(logits)
           /\ \A k \in 1..Len(top) : top[k][2] = p[top[k][1]]
           /\ Len(logits) <= top_k =>
                sum([k \in 1..Len(top) |-> top[k][2]]) = sum(p)
           /\ (t # NoTarget /\ HasId(logits, t)) =>
                /\ fn_out[2] = p[t]
                /\ rank <= Len(top) => top[rank] = <<t, fn_out[2]>>

\* Six candidates of unequal logits; the target is the last of them and so
\* is not among the top predictions, but has its probability.
C18_Witness ==
    /\ fn_out # <<>>
    /\ "logits" \in DOMAIN fn_in
    /\ Len(fn_in.logits) = MaxCands
    /\ fn_out[1] = MaxCands
    /\ fn_out[2] > 0
    /\ Len(fn_out[3]) = top_k
    /\ fn_out[3][1][2] > fn_out[2]

\* ------------------------------------------------------------------ C19
\* The step of the chunk loop that submits a chunk.
ChunkLoopStep ==
    /\ pc = "decode"
    /\ processed_count < Len(tokens)
    /\ trace' # trace

\* The last call a step recorded.
LastCall(tr) ==
    tr[CHOOSE j \in 1..Len(tr) :
          /\ tr[j].ev = "call"
          /\ \A k \in (j + 1)..Len(tr) : tr[k].ev # "call"]

C19_Step ==
    /\ ChunkLoopStep =>
        LET batch == Batch(Chunk(tokens, processed_count), processed_count)
            n == Len(batch)
        IN /\ 1 <= n /\ n <= n_batch
           /\ \A i \in 1..n :
                /\ batch[i].pos = processed_count + i - 1
                /\ batch[i].token = tokens[batch[i].pos + 1]
           /\ Len(compact_results) = processed_count
           /\ LastCall(trace').op \in {"batch_add", "decode"}
           /\ LastCall(trace').arg = [first |-> processed_count, n |-> n]
           /\ pc' = "chunks" =>
                /\ LastCall(trace').res = "ok"
                /\ processed_count' = processed_count + n
                /\ Len(compact_results') = processed_count'
                /\ tokens' = tokens
    /\ SendsCompleted => processed_count = Len(tokens)

\* C19: the driver submits the tokens in contiguous chunks of at most 512,
\* in order and one chunk at a time: the chunk submitted when p tokens are
\* processed holds the tokens of the absolute positions p, p+1, ... in
\* order, every earlier position has been decoded and extracted and no later
\* one has, the count then advances by the chunk's length, and Completed is
\* sent only when it has reached N.
C19_Chunks == [][C19_Step]_vars

\* A finished run of more than 512 tokens: its second chunk started at
\* position 512.
C19_Witness ==
    /\ pc = "recv"
    /\ \E j \in 1..Len(trace) :
          /\ IsCall(trace[j], "decode")
          /\ trace[j].res = "ok"
          /\ trace[j].arg.first = n_batch
          /\ trace[j].arg.n = LongLen - n_batch
    /\ \E k \in 1..Len(msg_chan) :
          /\ msg_chan[k].type = "Completed"
          /\ Len(msg_chan[k].result) = LongLen

\* ------------------------------------------------------------------ C20
\* Tokens of the chunks decoded before event j of a run.
RECURSIVE EarlierTokens(_, _)
EarlierTokens(seg, j) ==
    IF j <= 1 THEN 0
    ELSE EarlierTokens(seg, j - 1)
           + (IF IsCall(seg[j - 1], "decode") THEN seg[j - 1].arg.n ELSE 0)

\* C20: in every analysis run each decode call comes right after the filling
\* of its batch, and that right after a Progress whose current is the number
\* of tokens of the chunks decoded before and whose total is the number of
\* tokens of the text; nothing is sent between that Progress and the decode,
\* and what follows a failed decode is the Error, not a Progress.
C20_ProgressBeforeDecode ==
    \A i \in RecvsOf("Analyze") :
        LET seg == SegEvents(i)
            N == Len(str_to_token(trace[i].cmd.text, TRUE, adds_bos).tokens)
        IN \A j \in 1..Len(seg) :
             IsCall(seg[j], "decode") =>
                /\ j >= 3
                /\ IsCall(seg[j - 1], "batch_add")
                /\ seg[j - 2] = EvSend(Progress(EarlierTokens(seg, j), N))
                /\ seg[j].arg.first = EarlierTokens(seg, j)
                /\ (seg[j].res = "err" /\ j < Len(seg)) =>
                        IsSendOf(seg[j + 1], {"Error"})
                /\ (seg[j].res = "ok" /\ j < Len(seg)) =>
                        /\ IsSendOf(seg[j + 1], {"Progress"})
                        /\ seg[j + 1].msg.current =
                              EarlierTokens(seg, j) + seg[j].arg.n

\* The decode of the second chunk of a long text failed: the messages
\* before the Error end with the Progress of that chunk, current 512.
C20_Witness ==
    \E j \in 3..Len(trace) :
        /\ IsCall(trace[j], "decode")
        /\ trace[j].res = "err"
        /\ trace[j].arg.first = n_batch
        /\ trace[j - 2].ev = "send"
        /\ trace[j - 2].msg.type = "Progress"
        /\ trace[j - 2].msg.current = n_batch
        /\ j < Len(trace)
        /\ IsSendOf(trace[j + 1], {"Error"})

\* ------------------------------------------------------------------ C21
\* The number of tokens analyze gets for the text of the command received
\* at position i of the history.
TotalTokens(i) == Len(str_to_token(trace[i].cmd.text, TRUE, adds_bos).tokens)

\* Tokens of the chunks whose decode succeeded before event j of a run.
RECURSIVE ProcessedBefore(_, _)
ProcessedBefore(seg, j) ==
    IF j <= 1 THEN 0
    ELSE ProcessedBefore(seg, j - 1)
           + (IF IsCall(seg[j - 1], "decode") /\ seg[j - 1].res = "ok"
              THEN seg[j - 1].arg.n ELSE 0)

\* The claim as stated: every Progress of a run reports the tokens processed
\* so far and the number of tokens of the text.
C21_EveryProgress ==
    \A i \in RecvsOf("Analyze") :
        LET seg == SegEvents(i)
        IN \A j \in 1..Len(seg) :
             IsSendOf(seg[j], {"Progress"}) =>
                /\ seg[j].msg.total = TotalTokens(i)
                /\ seg[j].msg.current = ProcessedBefore(seg, j)

\* C21: the first Progress of a run is sent before the text is tokenized
\* and is always (0, 1); every later Progress reports current = the tokens
\* of the chunks decoded so far and total = the number of tokens of the
\* text.
C21_ProgressReports ==
    \A i \in RecvsOf("Analyze") :
        LET seg == SegEvents(i)
        IN \A j \in 1..Len(seg) :
             IsSendOf(seg[j], {"Progress"}) =>
                IF j = 2
                THEN /\ seg[j].msg = Progress(0, 1)
                     /\ \A k \in 1..j : ~IsCall(seg[k], "tokenize")
                ELSE /\ \E k \in 1..(j - 1) : IsCall(seg[k], "tokenize")
                     /\ seg[j].msg.total = TotalTokens(i)
                     /\ seg[j].msg.current = ProcessedBefore(seg, j)

\* A run over more than 512 tokens: after the Progress (0, 1), which is not
\* the text's total, came the Progress of the second chunk.
C21_Witness ==
    \E i \in RecvsOf("Analyze") :
        LET seg == SegEvents(i)
        IN /\ TotalTokens(i) > n_batch
           /\ Len(seg) >= 2
           /\ seg[2] = EvSend(Progress(0, 1))
           /\ \E j \in 3..Len(seg) :
                seg[j] = EvSend(Progress(n_batch, TotalTokens(i)))

\* ------------------------------------------------------------------ C22
\* The Progress messages of a run, in order.
ProgressOf(seg) ==
    Msgs(SelectSeq(seg, LAMBDA e : IsSendOf(e, {"Progress"})))

\* C22: in one run every Progress has current <= total and total >= 1, the
\* fraction current/total, also as the caller computes it, never decreases
\* from one Progress to the next, and in a run that ends with a Completed
\* of N > 0 tokens the last Progress is (N, N).
C22_ProgressMonotone ==
    \A i \in RecvsOf("Analyze") :
        LET seg == SegEvents(i)
            ps == ProgressOf(seg)
        IN /\ \A j \in 1..Len(ps) :
                /\ ps[j].current <= ps[j].total
                /\ ps[j].total >= 1
                /\ Fraction(ps[j].current, ps[j].total) <= SCALE
           /\ \A j \in 1..(Len(ps) - 1) :
                /\ ps[j].current * ps[j + 1].total
                      <= ps[j + 1].current * ps[j].total
                /\ Fraction(ps[j].current, ps[j].total)
                      <= Fraction(ps[j + 1].current, ps[j + 1].total)
           /\ \A k \in 1..Len(seg) :
                (IsSendOf(seg[k], {"Completed"})
                    /\ Len(seg[k].msg.result) > 0) =>
                   /\ k > 1
                   /\ seg[k - 1] = EvSend(Progress(Len(seg[k].msg.result),
                                                  Len(seg[k].msg.result)))
                   /\ ps[Len(ps)] = seg[k - 1].msg

\* A completed run of two chunks: four Progress messages, the fraction
\* rising from 0 to 1.
C22_Witness ==
    \E i \in RecvsOf("Analyze") :
        LET ps == ProgressOf(SegEvents(i))
        IN /\ Len(ps) = 4
           /\ ps[3].current = n_batch
           /\ ps[4].current = ps[4].total
           /\ IsSendOf(trace[SegEnd(i)], {"Completed"})

\* ------------------------------------------------------------------ C23
\* The state after calculate_token_metrics ran on a non-empty list.
MetricsDone ==
    fn_out # <<>> /\ "logits" \in DOMAIN fn_in /\ fn_in.logits # <<>>

\* C23: in one candidate list, a target whose logit is strictly greater
\* than another candidate's gets a strictly smaller rank than that
\* candidate gets as the target.
C23_RankMonotone ==
    (MetricsDone /\ HasId(fn_in.logits, fn_in.target_token)) =>
        LET logits == fn_in.logits
            A == fn_in.target_token
        IN \A B \in 1..Len(logits) :
              LogitOf(logits, A) > LogitOf(logits, B) =>
                 fn_out[1] < calculate_token_metrics(logits, B)[1]

\* A target of rank 3 that is listed first: two candidates listed after it
\* beat it, a third one loses to it.
C23_Witness ==
    /\ MetricsDone
    /\ fn_in.target_token = 1
    /\ fn_out[1] = 3
    /\ NumAbove(fn_in.logits, LogitOf(fn_in.logits, 1)) = 2
    /\ \E B \in 2..Len(fn_in.logits) :
          LogitOf(fn_in.logits, B) < LogitOf(fn_in.logits, 1)

\* ------------------------------------------------------------------ C24
\* C24: for a list of n > 0 candidates there are min(5, n) top predictions;
\* they are the first entries of the candidates sorted by descending logit,
\* each with its softmax probability, so no candidate left out has a higher
\* logit than one taken and the probabilities do not increase; the list is
\* the same for every target, present, absent or none.
C24_TopPredictions ==
    MetricsDone =>
        LET logits == fn_in.logits
            top == fn_out[3]
            taken == {top[k][1] : k \in 1..Len(top)}
        IN /\ Len(top) = Min(top_k, Len(logits))
           /\ Cardinality(taken) = Len(top)
           /\ \A k \in 1..Len(top) :
                /\ HasId(logits, top[k][1])
                /\ top[k] = <<SortDesc(logits)[k][1],
                              Softmax(logits)[SortDesc(logits)[k][1]]>>
           /\ \A k \in 1..(Len(top) - 1) :
                /\ LogitOf(logits, top[k][1]) >= LogitOf(logits, top[k + 1][1])
                /\ top[k][2] >= top[k + 1][2]
           /\ \A id \in 1..Len(logits) :
                id \notin taken =>
                   \A k \in 1..Len(top) :
                      LogitOf(logits, id) <= LogitOf(logits, top[k][1])
           /\ \A t \in 0..(MaxCands + 1) :
                calculate_token_metrics(logits, t)[3] = top

\* More than five candidates and a target that is not among them: five top
\* predictions, the first more probable than the last.
C24_Witness ==
    /\ MetricsDone
    /\ Len(fn_in.logits) > top_k
    /\ ~HasId(fn_in.logits, fn_in.target_token)
    /\ fn_in.target_token # NoTarget
    /\ Len(fn_out[3]) = top_k
    /\ fn_out[3][1][2] > fn_out[3][top_k][2]

\* ------------------------------------------------------------------ C25
\* The Completed results the current worker has sent.
CompletedResults ==
    { msg_chan[k].result :
        k \in {j \in 1..Len(msg_chan) : msg_chan[j].type = "Completed"} }

\* What the claim says of one token after the first: with rank r <= 5 it
\* is the r-th of its own top predictions, with the same probability, and
\* with rank 1 none of them is more probable.
RankInTop(tok) ==
    LET top == tok.top_predictions
    IN tok.rank <= top_k =>
         /\ Len(top) >= tok.rank
         /\ top[tok.rank] = <<tok.text, tok.probability>>
         /\ tok.rank = 1 =>
              \A k \in 1..Len(top) : top[k][2] <= tok.probability

C25_Step ==
    SendsCompleted =>
        LET result == msg_chan'[Len(msg_chan')].result
        IN \A i \in 2..Len(result) : RankInTop(result[i])

\* C25 as stated: in every Completed result, a token after the first with
\* rank r <= 5 is the r-th of its own top predictions, with the same
\* probability; a token of rank 1 is the first of them, and none of them is
\* more probable.
C25_RankInTop == [][C25_Step]_vars

\* The candidates the engine surfaced for token i (1-based, i >= 2): those
\* of the position before it.
CandidatesFor(toks, i) ==
    candidates_ith(<<[token |-> toks[i - 1], pos |-> i - 2]>>, 1)

\* The engine surfaced token i itself among them.
IsSurfaced(toks, i) ==
    \E k \in 1..Len(CandidatesFor(toks, i)) :
        CandidatesFor(toks, i)[k][1] = toks[i]

C25_SurfacedStep ==
    SendsCompleted =>
        LET result == msg_chan'[Len(msg_chan')].result
        IN \A i \in 2..Len(result) :
              LET tok == result[i]
                  top == tok.top_predictions
                  n == Len(CandidatesFor(tokens, i))
              IN IF IsSurfaced(tokens, i)
                 THEN RankInTop(tok)
                 ELSE /\ tok.rank = 1
                      /\ tok.probability = 0
                      /\ Len(top) = (IF n < top_k THEN n ELSE top_k)
                      /\ \A k \in 1..Len(top) : top[k][1] # tok.text

\* C25 amended: in every Completed result, a token after the first that
\* the engine surfaced among the candidates of the position before it, and
\* that has rank r <= 5, is the r-th of its own top predictions, with the
\* same probability, and with rank 1 none of them is more probable; a token
\* the engine did not surface, or for which it gave no candidate at all, is
\* reported with rank 1 and probability 0 although it is none of its top
\* predictions, which are then the first five candidates, or none.
C25_RankInTopIfSurfaced == [][C25_SurfacedStep]_vars

\* A result was sent in which one token after the first was predicted
\* exactly, another was the model's second to fifth choice, a third has
\* rank 1 and probability 0 with other tokens as its top predictions, and a
\* fourth has rank 1 and no prediction at all.
C25_Witness ==
    \E result \in CompletedResults :
        /\ \E i \in 2..Len(result) :
              /\ result[i].rank = 1
              /\ result[i].probability > 0
        /\ \E i \in 2..Len(result) :
              /\ result[i].rank > 1
              /\ result[i].rank <= top_k
              /\ result[i].top_predictions[result[i].rank][1] = result[i].text
        /\ \E i \in 2..Len(result) :
              /\ result[i].rank = 1
              /\ result[i].probability = 0
              /\ Len(result[i].top_predictions) = top_k
              /\ result[i].top_predictions[1][1] # result[i].text
        /\ \E i \in 2..Len(result) :
              /\ result[i].rank = 1
              /\ result[i].top_predictions = <<>>

\* ------------------------------------------------------------------ C26
\* The current worker has an Analyze command waiting in its channel.
AnalyzeQueued == \E k \in 1..Len(cmd_chan) : cmd_chan[k].type = "Analyze"

\* The current worker is inside the Analyze arm of its loop.
AnalyzeRunning == pc \in AnalyzePcs

\* The caller's Receiver holds a Completed or Error it has not read.
TerminalUnread ==
    /\ worker_rx
    /\ \E k \in (polled + 1)..Len(msg_chan) : msg_chan[k].type \in Terminal

\* C26: whenever is_analyzing is true, the current worker has an Analyze
\* command queued or running, or the terminal message of one is still
\* unread by the caller.
C26_AnalyzingJustified ==
    is_analyzing => AnalyzeQueued \/ AnalyzeRunning \/ TerminalUnread

\* ------------------------------------------------------------------ C27
\* The current worker's model load failed.
LoadFailed == trace # <<>> /\ IsFailedCall(trace[1])

\* The caller has read the Error of the failed load.
LoadErrorProcessed == LoadFailed /\ worker_rx /\ polled >= 1

\* C27: the channel of a worker whose load failed never accepts an Analyze
\* command; once the caller has read the Error, is_analyzing is false after
\* any start_analysis, and a start_analysis has left the error 'Failed to
\* send command'.
C27_FailedLoadRejects ==
    /\ LoadFailed => \A k \in 1..Len(sent_cmds) : sent_cmds[k].type # "Analyze"
    /\ LoadErrorProcessed => ~is_analyzing
    /\ (LoadErrorProcessed /\ progress = <<0>>) =>
          error_message = <<"Failed to send command">>

\* ------------------------------------------------------------------ C28
\* The step on which the caller's Analyze enters the command channel.
SendsAnalyze ==
    /\ Len(sent_cmds') = Len(sent_cmds) + 1
    /\ sent_cmds'[Len(sent_cmds')].type = "Analyze"

\* Terminal messages of analyses among the first n messages of the current
\* worker (the Error of a failed load is not one).
AnalysisTerminals(n) ==
    Cardinality({k \in 1..n : /\ msg_chan[k].type \in Terminal
                              /\ ~(k = 1 /\ LoadFailed)})

C28_Step ==
    /\ SendsAnalyze =>
        /\ ~is_loading_model
        /\ ~is_analyzing
        /\ NumAnalyzeSent = AnalysisTerminals(polled)
    /\ NumAnalyzeSent - AnalysisTerminals(Len(msg_chan)) <= 1

\* C28: the caller sends Analyze only when is_loading_model is false and
\* every Analyze it sent to the same worker before has had its Completed or
\* Error processed; at most one analysis per worker is in flight.
C28_OneInFlight == [][C28_Step]_vars

\* The same worker was sent a second Analyze, after the caller had read the
\* terminal message of the first.
C28_Witness ==
    /\ NumAnalyzeSent = 2
    /\ AnalysisTerminals(polled) >= 1
    /\ is_analyzing

\* ------------------------------------------------------------------ C29
\* C29: the channel the caller reads holds exactly the messages that the
\* worker spawned by the latest load_model has sent, in order, so nothing
\* the caller applies comes from a worker that was replaced or shut down;
\* a result the caller holds is one that this worker sent in a Completed
\* the caller has read.
C29_CurrentWorkerOnly ==
    /\ worker_rx =>
        /\ msg_chan = Msgs(trace)
        /\ polled <= Len(msg_chan)
    /\ analysis_result # <<>> =>
        /\ \E j \in 1..Len(trace) :
              trace[j] = EvSend(Completed(analysis_result[1]))
        /\ worker_rx =>
              \E k \in 1..polled : msg_chan[k] = Completed(analysis_result[1])

\* A second worker has loaded and the caller has read its ModelLoaded; the
\* analysis that was under way when the first worker was replaced left no
\* result and no end.
C29_Witness ==
    /\ n_loads = 2
    /\ pc = "recv"
    /\ polled >= 1
    /\ ~is_loading_model
    /\ is_analyzing
    /\ analysis_result = <<>>
    /\ NumAnalyzeSent = 0

\* ------------------------------------------------------------------ C30
\* C30: when the same worker answered a Tokenize and an Analyze of the same
\* text, the count of the TokenCount is the number of tokens of the
\* Completed result.
C30_CountMatchesResult ==
    \A i \in RecvsOf("Tokenize") :
        \A j \in RecvsOf("Analyze") :
            trace[i].cmd.text = trace[j].cmd.text =>
                \A a \in 1..Len(SegEvents(i)) :
                    \A b \in 1..Len(SegEvents(j)) :
                        (/\ IsSendOf(SegEvents(i)[a], {"TokenCount"})
                         /\ IsSendOf(SegEvents(j)[b], {"Completed"})) =>
                            SegEvents(i)[a].msg.count
                                = Len(SegEvents(j)[b].msg.result)

====
